---- MODULE Spec2Model ----
(***************************************************************************)
(* The frame engine of egui_graphs: GraphView's per-frame widget pass      *)
(* (draw_and_sync, handle_drags, handle_clicks, handle_navigation), the    *)
(* camera metadata it keeps between frames, and the host loop that applies *)
(* the frame's changes to the graph elements.                              *)
(*                                                                         *)
(* f32 scalars are modelled as exact rationals <<n, d>> in lowest terms    *)
(* with d > 0; Vec2 / Pos2 are pairs <<x, y>> of such rationals.           *)
(***************************************************************************)
EXTENDS Integers, Sequences, FiniteSets, TLC

VARIABLES
    nodes,      \* Elements: node idx -> [location, selected, dragged]
    edges,      \* Elements: edge idx (start, end, list_idx) -> [selected]
    settings,   \* Settings handed to GraphView::new
    metadata,   \* Metadata stored in the ui between frames
    rect,       \* response.rect, the canvas rectangle of the widget
    changes,    \* GraphView.changes: changes of the last frame
    phase,      \* "host": changes applied, "frame": a frame has just run
    frames,     \* number of frames run so far
    pre,        \* elements and metadata as they were when the last frame started
    inp,        \* pointer input of the last frame
    state,      \* FrameState the last frame was computed with
    hostops,    \* number of host operations between frames so far
    bounds_by,  \* which pass of the frame accumulates the graph bounds
    graph,      \* Graph: edge index -> (start, end), and the folded nodes
    hit,        \* the last hit tests or double click on graph and their outcome
    comp,       \* StateComputed of the frame on graph, dropped after the frame
    drawn       \* what the last drawing pass over the edges of graph evaluated

vars == <<nodes, edges, settings, metadata, rect, changes, phase, frames, pre, inp, state,
          hostops, bounds_by, graph, hit, comp, drawn>>

-----------------------------------------------------------------------------
(* Bounds of the model *)

MaxFrames == 3
MaxHostOps == 1

-----------------------------------------------------------------------------
(* Exact rational arithmetic standing in for f32 *)

Abs(i) == IF i < 0 THEN -i ELSE i

RECURSIVE GCD(_, _)
GCD(a, b) == IF b = 0 THEN a ELSE GCD(b, a % b)

Norm(n, d) ==
    LET g == GCD(Abs(n), Abs(d))
        s == IF d < 0 THEN -1 ELSE 1
    IN  <<(s * n) \div g, (s * d) \div g>>

R(i) == <<i, 1>>
\* products and sums are reduced before they are multiplied out
RMul(a, b) ==
    LET g1 == GCD(Abs(a[1]), b[2])
        g2 == GCD(Abs(b[1]), a[2])
    IN  Norm((a[1] \div g1) * (b[1] \div g2), (a[2] \div g2) * (b[2] \div g1))
RAdd(a, b) ==
    LET g == GCD(a[2], b[2])
    IN  Norm(a[1] * (b[2] \div g) + b[1] * (a[2] \div g), (a[2] \div g) * b[2])
RNeg(a) == <<-a[1], a[2]>>
RSub(a, b) == RAdd(a, RNeg(b))
RInv(a) == IF a[1] < 0 THEN <<-a[2], -a[1]>> ELSE <<a[2], a[1]>>
RDiv(a, b) == RMul(a, RInv(b))
\* a < b, decided on the integer parts and, where these agree, on the
\* reciprocals of the fractional parts
RECURSIVE RLt(_, _)
RLt(a, b) ==
    LET qa == a[1] \div a[2]
        qb == b[1] \div b[2]
        ra == a[1] % a[2]
        rb == b[1] % b[2]
    IN  IF qa # qb THEN qa < qb
        ELSE IF rb = 0 THEN FALSE
        ELSE IF ra = 0 THEN TRUE
        ELSE RLt(<<b[2], rb>>, <<a[2], ra>>)
RLe(a, b) == ~RLt(b, a)
RMin(a, b) == IF RLt(b, a) THEN b ELSE a
RAbs(a) == IF a[1] < 0 THEN RNeg(a) ELSE a

V(x, y) == <<R(x), R(y)>>
VAdd(a, b) == <<RAdd(a[1], b[1]), RAdd(a[2], b[2])>>
VSub(a, b) == <<RSub(a[1], b[1]), RSub(a[2], b[2])>>
VScale(a, k) == <<RMul(a[1], k), RMul(a[2], k)>>
VDiv(a, k) == <<RDiv(a[1], k), RDiv(a[2], k)>>
VLen2(a) == RAdd(RMul(a[1], a[1]), RMul(a[2], a[2]))

-----------------------------------------------------------------------------
(* Program constants *)

SCREEN_PADDING == <<3, 10>>
ZOOM_STEP == <<1, 10>>
EDGE_SCALE_WEIGHT == 1
DEFAULT_RADIUS == 5

-----------------------------------------------------------------------------
(* The graph elements the model runs on *)

NodeSeq == <<1, 2, 3>>
NodeIds == {NodeSeq[i] : i \in DOMAIN NodeSeq}
NoNode == 0

EdgeSeq == << <<1, 2, 0>>, <<1, 2, 1>>, <<2, 3, 0>>, <<3, 1, 0>> >>
EdgeIds == {EdgeSeq[i] : i \in DOMAIN EdgeSeq}

NoPos == <<>>

InitLocation == (1 :> V(8, 8)) @@ (2 :> V(92, 42)) @@ (3 :> V(40, 30))

\* construct_simulation: every edge adds EDGE_SCALE_WEIGHT to the radius of
\* its source and of its target
node_radius(idx) ==
    R(DEFAULT_RADIUS
      + EDGE_SCALE_WEIGHT * Cardinality({e \in EdgeIds : e[1] = idx})
      + EDGE_SCALE_WEIGHT * Cardinality({e \in EdgeIds : e[2] = idx}))

F32_MAX == 1000000

-----------------------------------------------------------------------------
(* Geometry of the canvas rectangle (egui::Rect) *)

rect_size(r) == VSub(r.max, r.min)
rect_center(r) == VDiv(VAdd(r.min, r.max), R(2))

-----------------------------------------------------------------------------
(* Node::screen_transform: graph space -> screen space, the inverse of the
   pointer mapping (screen_pos - pan) / zoom *)

screen_location(n, zoom, pan) == VAdd(VScale(n.location, zoom), pan)

pos_in_graph(screen_pos, m) == VDiv(VSub(screen_pos, m.pan), m.zoom)

-----------------------------------------------------------------------------
(* Changes: the ordered change entries of one frame *)

NoChanges == <<>>
ZeroVec == V(0, 0)

Entry(kind, id, delta) == [kind |-> kind, id |-> id, delta |-> delta]

select_node(chg, idx) == Append(chg, Entry("select_node", idx, ZeroVec))
deselect_node(chg, idx) == Append(chg, Entry("deselect_node", idx, ZeroVec))
deselect_edge(chg, idx) == Append(chg, Entry("deselect_edge", idx, ZeroVec))
changes_set_dragged_node(chg, idx) == Append(chg, Entry("set_dragged", idx, ZeroVec))
changes_unset_dragged_node(chg, idx) == Append(chg, Entry("unset_dragged", idx, ZeroVec))
move_node(chg, idx, delta) == Append(chg, Entry("move_node", idx, delta))

-----------------------------------------------------------------------------
(* GraphView *)

\* the bounding box of all nodes, each taken with its radius
RECURSIVE bounds_from(_, _, _)
bounds_from(ns, i, acc) ==
    IF i > Len(NodeSeq) THEN acc
    ELSE IF NodeSeq[i] \notin DOMAIN ns THEN bounds_from(ns, i + 1, acc)
    ELSE LET idx == NodeSeq[i]
             loc == ns[idx].location
             rad == node_radius(idx)
             x_minus_rad == RSub(loc[1], rad)
             y_minus_rad == RSub(loc[2], rad)
             x_plus_rad == RAdd(loc[1], rad)
             y_plus_rad == RAdd(loc[2], rad)
         IN  bounds_from(ns, i + 1,
                 [min |-> <<IF RLt(x_minus_rad, acc.min[1]) THEN x_minus_rad ELSE acc.min[1],
                            IF RLt(y_minus_rad, acc.min[2]) THEN y_minus_rad ELSE acc.min[2]>>,
                  max |-> <<IF RLt(acc.max[1], x_plus_rad) THEN x_plus_rad ELSE acc.max[1],
                            IF RLt(acc.max[2], y_plus_rad) THEN y_plus_rad ELSE acc.max[2]>>])

compute_graph_bounds(ns) ==
    bounds_from(ns, 1, [min |-> V(F32_MAX, F32_MAX), max |-> V(-F32_MAX, -F32_MAX)])

\* handle_zoom returns (new_zoom, new_pan); its two components
handle_zoom_new_zoom(delta, m) ==
    LET factor == RAdd(R(1), delta)
    IN  RMul(m.zoom, factor)

handle_zoom_new_pan(r, delta, zoom_center, m) ==
    LET center_pos == IF zoom_center # NoPos
                      THEN VSub(zoom_center, r.min)
                      ELSE VSub(rect_center(r), r.min)
        graph_center_pos == VDiv(VSub(center_pos, m.pan), m.zoom)
        new_zoom == handle_zoom_new_zoom(delta, m)
    IN  VAdd(m.pan, VSub(VScale(graph_center_pos, m.zoom),
                         VScale(graph_center_pos, new_zoom)))

handle_zoom(r, delta, zoom_center, m) ==
    <<handle_zoom_new_zoom(delta, m), handle_zoom_new_pan(r, delta, zoom_center, m)>>

\* an f32 difference: beyond f32::MAX it is an infinity, <<1, 0>> or <<-1, 0>>
f32_sub(a, b) ==
    LET d == RSub(a, b)
    IN  IF RLt(R(F32_MAX), RAbs(d)) THEN <<IF d[1] < 0 THEN -1 ELSE 1, 0>> ELSE d

fit_to_screen(r, m) ==
    LET diag == <<f32_sub(m.graph_bounds.max[1], m.graph_bounds.min[1]),
                  f32_sub(m.graph_bounds.max[2], m.graph_bounds.min[2])>>
        graph_size == VScale(diag, RAdd(R(1), SCREEN_PADDING))
        canvas_size == rect_size(r)
        zoom_x == RDiv(canvas_size[1], graph_size[1])
        zoom_y == RDiv(canvas_size[2], graph_size[2])
        fit_zoom == RMin(zoom_x, zoom_y)
        zoom_delta == RSub(RDiv(fit_zoom, m.zoom), R(1))
        \* (new_zoom, _) = handle_zoom(rect, zoom_delta, None, metadata)
        new_zoom == handle_zoom_new_zoom(zoom_delta, m)
        graph_center == VDiv(VAdd(m.graph_bounds.min, m.graph_bounds.max), R(2))
    IN  [m EXCEPT !.zoom = new_zoom,
                  !.pan = VSub(rect_center(r), VScale(graph_center, new_zoom))]

\* fit_if_first that clears the flag and leaves the camera as it is
fit_if_first_without_fit(ns, r, m) ==
    IF ~m.first_frame THEN m
    ELSE [m EXCEPT !.graph_bounds = compute_graph_bounds(ns), !.first_frame = FALSE]

\* GraphView::fit_if_first
fit_if_first(ns, r, m) ==
    IF ~m.first_frame THEN m
    ELSE [fit_to_screen(r, [m EXCEPT !.graph_bounds = compute_graph_bounds(ns)])
             EXCEPT !.first_frame = FALSE]

\* length(v) <= rad, decided without squaring where the coordinates alone
\* decide it: false when one coordinate exceeds rad, true when the two
\* coordinates together do not exceed it
within_radius(v, rad) ==
    IF RLt(rad, RAbs(v[1])) \/ RLt(rad, RAbs(v[2])) THEN FALSE
    ELSE IF RLe(RAdd(RAbs(v[1]), RAbs(v[2])), rad) THEN TRUE
    ELSE RLe(VLen2(v), RMul(rad, rad))

\* first node in iteration order whose screen circle contains pos:
\* |location * zoom + pan - pos| <= radius * zoom, compared with both sides
\* divided by zoom (zoom > 0)
RECURSIVE node_by_pos_from(_, _, _, _)
node_by_pos_from(ns, m, pos, i) ==
    IF i > Len(NodeSeq) THEN NoNode
    ELSE IF NodeSeq[i] \notin DOMAIN ns THEN node_by_pos_from(ns, m, pos, i + 1)
    ELSE LET idx == NodeSeq[i]
         IN  IF within_radius(VSub(ns[idx].location, pos_in_graph(pos, m)), node_radius(idx))
             THEN idx
             ELSE node_by_pos_from(ns, m, pos, i + 1)

node_by_pos(ns, m, pos) == node_by_pos_from(ns, m, pos, 1)

\* Elements::get_node: the node of the identity, None when the elements hold
\* no node of that identity; the elements are left as they are
get_node(ns, idx) ==
    IF idx \in DOMAIN ns THEN [found |-> TRUE, node |-> ns[idx]] ELSE [found |-> FALSE]

\* draw_and_sync_edges looks up the two endpoints of every edge and unwraps
\* what it gets: unwrap panics on None
draw_and_sync_edges_panics(ns, es) ==
    \E idx \in DOMAIN es : ~get_node(ns, idx[1]).found \/ ~get_node(ns, idx[2]).found

\* sync_node / sync_edge over all elements: the FrameState of the frame.
\* Every dragged node calls set_dragged_node, the last one visited stays;
\* d is that node (NoNode when no node is flagged).
draw_and_sync_state(ns, es, d) ==
    [dragged_node |-> d,
     selected_nodes |-> {idx \in NodeIds \cap DOMAIN ns : ns[idx].selected},
     selected_edges |-> {idx \in EdgeIds \cap DOMAIN es : es[idx].selected}]

dragged_candidates(ns) ==
    IF \E idx \in NodeIds \cap DOMAIN ns : ns[idx].dragged
    THEN {idx \in NodeIds \cap DOMAIN ns : ns[idx].dragged}
    ELSE {NoNode}

\* draw_and_sync_nodes stores the bounding box of the nodes it has drawn
draw_and_sync_nodes(ns, m) == [m EXCEPT !.graph_bounds = compute_graph_bounds(ns)]

\* StateComputedNode::radius
radius(idx, m) == RMul(node_radius(idx), m.zoom)

\* StateComputed::compute_for_node, the part that extends the bounds kept in
\* the metadata by one node
compute_for_node(ns, m, idx, acc) ==
    LET loc == ns[idx].location
        x_minus_rad == RSub(loc[1], radius(idx, m))
        y_minus_rad == RSub(loc[2], radius(idx, m))
        x_plus_rad == RAdd(loc[1], radius(idx, m))
        y_plus_rad == RAdd(loc[2], radius(idx, m))
    IN  [min |-> <<IF RLt(x_minus_rad, acc.min[1]) THEN x_minus_rad ELSE acc.min[1],
                   IF RLt(y_minus_rad, acc.min[2]) THEN y_minus_rad ELSE acc.min[2]>>,
         max |-> <<IF RLt(acc.max[1], x_plus_rad) THEN x_plus_rad ELSE acc.max[1],
                   IF RLt(acc.max[2], y_plus_rad) THEN y_plus_rad ELSE acc.max[2]>>]

RECURSIVE compute_from(_, _, _, _)
compute_from(ns, m, i, acc) ==
    IF i > Len(NodeSeq) THEN acc
    ELSE compute_from(ns, m, i + 1, compute_for_node(ns, m, NodeSeq[i], acc))

\* the frame's pass over all nodes with compute_for_node, the bounds starting
\* from the sentinels
compute_state(ns, m) ==
    [m EXCEPT !.graph_bounds =
        compute_from(ns, m, 1, [min |-> V(F32_MAX, F32_MAX), max |-> V(-F32_MAX, -F32_MAX)])]

RECURSIVE deselect_nodes_from(_, _, _)
deselect_nodes_from(st, chg, i) ==
    IF i > Len(NodeSeq) THEN chg
    ELSE deselect_nodes_from(st,
             IF NodeSeq[i] \in st.selected_nodes
             THEN deselect_node(chg, NodeSeq[i]) ELSE chg,
             i + 1)

deselect_all_nodes(st, chg) == deselect_nodes_from(st, chg, 1)

RECURSIVE deselect_edges_from(_, _, _)
deselect_edges_from(st, chg, i) ==
    IF i > Len(EdgeSeq) THEN chg
    ELSE deselect_edges_from(st,
             IF EdgeSeq[i] \in st.selected_edges
             THEN deselect_edge(chg, EdgeSeq[i]) ELSE chg,
             i + 1)

deselect_all_edges(st, chg) == deselect_edges_from(st, chg, 1)

\* handle_node_click with the select logged before the others are cleared
handle_node_click_select_first(idx, st, chg, s) ==
    LET selected == select_node(chg, idx)
    IN  IF ~s.node_multiselect
        THEN deselect_all_edges(st, deselect_all_nodes(st, selected))
        ELSE selected

\* handle_node_click clearing the others whatever node_multiselect says
handle_node_click_always_clears(idx, st, chg, s) ==
    select_node(deselect_all_edges(st, deselect_all_nodes(st, chg)), idx)

handle_node_click(idx, st, chg, s) ==
    LET cleared == IF ~s.node_multiselect
                   THEN deselect_all_edges(st, deselect_all_nodes(st, chg))
                   ELSE chg
    IN  select_node(cleared, idx)

\* handle_clicks whose click on empty space clears the nodes only
handle_clicks_nodes_only(resp, st, ns, m, chg, s) ==
    IF ~s.node_select THEN chg
    ELSE IF ~resp.clicked THEN chg
    ELSE LET node == node_by_pos(ns, m, resp.hover_pos)
         IN  IF node = NoNode
             THEN deselect_all_nodes(st, chg)
             ELSE handle_node_click(node, st, chg, s)

handle_clicks(resp, st, ns, m, chg, s) ==
    IF ~s.node_select THEN chg
    ELSE IF ~resp.clicked THEN chg
    ELSE LET node == node_by_pos(ns, m, resp.hover_pos)
         IN  IF node = NoNode
             THEN deselect_all_edges(st, deselect_all_nodes(st, chg))
             ELSE handle_node_click(node, st, chg, s)

set_dragged_node(idx, chg) == changes_set_dragged_node(chg, idx)

unset_dragged_node(st, chg) ==
    IF st.dragged_node # NoNode
    THEN changes_unset_dragged_node(chg, st.dragged_node)
    ELSE chg

\* handle_drags moving the node by the screen delta as it is
handle_drags_screen_delta(resp, st, ns, m, chg, s) ==
    IF ~s.node_drag THEN chg
    ELSE LET started ==
                 IF resp.drag_started
                 THEN LET node == node_by_pos(ns, m, resp.hover_pos)
                      IN  IF node # NoNode THEN set_dragged_node(node, chg) ELSE chg
                 ELSE chg
             moved ==
                 IF resp.dragged /\ st.dragged_node # NoNode
                 THEN move_node(started, st.dragged_node, resp.drag_delta)
                 ELSE started
         IN  IF resp.drag_released /\ st.dragged_node # NoNode
             THEN unset_dragged_node(st, moved)
             ELSE moved

\* handle_drags without the early return on node_drag
handle_drags_unguarded(resp, st, ns, m, chg, s) ==
    LET started ==
            IF resp.drag_started
            THEN LET node == node_by_pos(ns, m, resp.hover_pos)
                 IN  IF node # NoNode THEN set_dragged_node(node, chg) ELSE chg
            ELSE chg
        moved ==
            IF resp.dragged /\ st.dragged_node # NoNode
            THEN move_node(started, st.dragged_node, VDiv(resp.drag_delta, m.zoom))
            ELSE started
    IN  IF resp.drag_released /\ st.dragged_node # NoNode
        THEN unset_dragged_node(st, moved)
        ELSE moved

handle_drags(resp, st, ns, m, chg, s) ==
    IF ~s.node_drag THEN chg
    ELSE LET started ==
                 IF resp.drag_started
                 THEN LET node == node_by_pos(ns, m, resp.hover_pos)
                      IN  IF node # NoNode THEN set_dragged_node(node, chg) ELSE chg
                 ELSE chg
             moved ==
                 IF resp.dragged /\ st.dragged_node # NoNode
                 THEN move_node(started, st.dragged_node, VDiv(resp.drag_delta, m.zoom))
                 ELSE started
         IN  IF resp.drag_released /\ st.dragged_node # NoNode
             THEN unset_dragged_node(st, moved)
             ELSE moved

\* (1. - delta).signum()
signum_one_minus(delta) == IF RLe(delta, R(1)) THEN R(1) ELSE R(-1)

\* handle_navigation asking for zoom_and_pan before fit_to_screen
handle_navigation_pan_first(resp, r, st, m, s) ==
    IF s.zoom_and_pan
    THEN LET zoomed ==
                 IF resp.zoom_delta = R(1) THEN <<m.zoom, m.pan>>
                 ELSE handle_zoom(r, RMul(ZOOM_STEP, signum_one_minus(resp.zoom_delta)),
                                  resp.hover_pos, m)
             panned ==
                 IF resp.dragged /\ st.dragged_node = NoNode
                 THEN <<zoomed[1], VAdd(m.pan, resp.drag_delta)>>
                 ELSE zoomed
         IN  [m EXCEPT !.zoom = panned[1], !.pan = panned[2]]
    ELSE IF s.fit_to_screen THEN fit_to_screen(r, m)
    ELSE m

\* handle_navigation that zooms and pans whatever zoom_and_pan is
handle_navigation_unconditional(resp, r, st, m, s) ==
    IF s.fit_to_screen THEN fit_to_screen(r, m)
    ELSE LET zoomed ==
                 IF resp.zoom_delta = R(1) THEN <<m.zoom, m.pan>>
                 ELSE handle_zoom(r, RMul(ZOOM_STEP, signum_one_minus(resp.zoom_delta)),
                                  resp.hover_pos, m)
             panned ==
                 IF resp.dragged /\ st.dragged_node = NoNode
                 THEN <<zoomed[1], VAdd(m.pan, resp.drag_delta)>>
                 ELSE zoomed
         IN  [m EXCEPT !.zoom = panned[1], !.pan = panned[2]]

handle_navigation(resp, r, st, m, s) ==
    IF s.fit_to_screen THEN fit_to_screen(r, m)
    ELSE IF ~s.zoom_and_pan THEN m
    ELSE LET zoomed ==
                 IF resp.zoom_delta = R(1) THEN <<m.zoom, m.pan>>
                 ELSE handle_zoom(r, RMul(ZOOM_STEP, signum_one_minus(resp.zoom_delta)),
                                  resp.hover_pos, m)
             panned ==
                 IF resp.dragged /\ st.dragged_node = NoNode
                 THEN <<zoomed[1], VAdd(m.pan, resp.drag_delta)>>
                 ELSE zoomed
         IN  [m EXCEPT !.zoom = panned[1], !.pan = panned[2]]

\* Widget::ui up to draw_and_sync: the metadata the handlers of the frame see
ui_draw_and_sync(r, ns, m, by) ==
    IF by = "compute_for_node"
    THEN compute_state(ns, fit_if_first(ns, r, m))
    ELSE draw_and_sync_nodes(ns, fit_if_first(ns, r, m))

\* Widget::ui from the handlers on: the changes the frame leaves in the
\* widget and the metadata it stores; m is the metadata after draw_and_sync
\* Widget::ui with the handlers logging into the changes the widget holds
ui_keeps_changes(resp, r, ns, st, m, s) ==
    LET c1 == handle_drags(resp, st, ns, m, changes, s)
        c2 == handle_clicks(resp, st, ns, m, c1, s)
        m3 == handle_navigation(resp, r, st, m, s)
    IN  [metadata |-> m3, changes |-> c2]

ui(resp, r, ns, st, m, s) ==
    LET c1 == handle_drags(resp, st, ns, m, NoChanges, s)
        c2 == handle_clicks(resp, st, ns, m, c1, s)
        m3 == handle_navigation(resp, r, st, m, s)
    IN  [metadata |-> m3, changes |-> c2]

-----------------------------------------------------------------------------
(* The host: ExampleApp::update adds the widget and applies last_changes() *)

apply_node_change(ns, c) ==
    IF c.kind = "select_node" THEN [ns EXCEPT ![c.id].selected = TRUE]
    ELSE IF c.kind = "deselect_node" THEN [ns EXCEPT ![c.id].selected = FALSE]
    ELSE IF c.kind = "set_dragged" THEN [ns EXCEPT ![c.id].dragged = TRUE]
    ELSE IF c.kind = "unset_dragged" THEN [ns EXCEPT ![c.id].dragged = FALSE]
    ELSE IF c.kind = "move_node"
         THEN [ns EXCEPT ![c.id].location = VAdd(ns[c.id].location, c.delta)]
    ELSE ns

apply_edge_change(es, c) ==
    IF c.kind = "deselect_edge" THEN [es EXCEPT ![c.id].selected = FALSE] ELSE es

RECURSIVE apply_changes_nodes(_, _, _)
apply_changes_nodes(ns, chg, i) ==
    IF i > Len(chg) THEN ns
    ELSE apply_changes_nodes(apply_node_change(ns, chg[i]), chg, i + 1)

RECURSIVE apply_changes_edges(_, _, _)
apply_changes_edges(es, chg, i) ==
    IF i > Len(chg) THEN es
    ELSE apply_changes_edges(apply_edge_change(es, chg[i]), chg, i + 1)

\* Metadata::default
MetadataDefault ==
    [first_frame |-> TRUE, zoom |-> R(1), pan |-> ZeroVec,
     graph_bounds |-> [min |-> ZeroVec, max |-> ZeroVec]]

-----------------------------------------------------------------------------
(* Inputs of a frame *)

Response(clicked, drag_started, dragged, drag_released, drag_delta, hover_pos, zoom_delta) ==
    [clicked |-> clicked, drag_started |-> drag_started, dragged |-> dragged,
     drag_released |-> drag_released, drag_delta |-> drag_delta,
     hover_pos |-> hover_pos, zoom_delta |-> zoom_delta]

NoResponse == Response(FALSE, FALSE, FALSE, FALSE, ZeroVec, NoPos, R(1))

DragDelta == V(12, 8)
ZoomIn == <<2, 1>>
ZoomOut == <<1, 2>>

\* where the pointer can be: over the centre of node 1 or of node 2, or in
\* the top left corner of the canvas, where no node is
PointerPositions(ns, m, r) ==
    {screen_location(ns[idx], m.zoom, m.pan) : idx \in {1, 2} \cap DOMAIN ns} \cup {r.min}

Responses(ns, m, r) ==
    LET P == PointerPositions(ns, m, r)
        over2 == IF 2 \in DOMAIN ns THEN screen_location(ns[2], m.zoom, m.pan) ELSE r.min
    IN  {NoResponse}
        \cup {Response(FALSE, FALSE, FALSE, FALSE, ZeroVec, NoPos, ZoomIn)}
        \cup {Response(FALSE, FALSE, FALSE, FALSE, ZeroVec, over2, ZoomOut)}
        \cup {Response(TRUE, FALSE, FALSE, FALSE, ZeroVec, p, R(1)) : p \in P}
        \cup {Response(FALSE, TRUE, TRUE, FALSE, DragDelta, p, R(1)) : p \in P}
        \cup {Response(FALSE, FALSE, TRUE, FALSE, DragDelta, r.min, z) : z \in {R(1), ZoomIn}}
        \cup {Response(FALSE, FALSE, FALSE, TRUE, ZeroVec, r.min, R(1))}

-----------------------------------------------------------------------------
(* Graph (graph.rs): the stable graph behind the widget, its hit tests and  *)
(* the sibling orders of parallel edges. The host adds and removes edges.   *)

\* edge indices of the stable graph are 1..MaxEdges
MaxEdges == 3
NoEdge == 0
\* a free slot of the stable graph
Vacant == <<0, 0>>

\* SettingsStyle::default
EDGE_RADIUS_WEIGHT == 1
\* Edge::width and Edge::curve_size, in graph units
EDGE_WIDTH == 2
EDGE_CURVE_SIZE == 8

\* Graph::nodes_iter: the node indices in index order
GNodeSeq == <<1, 2, 3, 4, 5>>
GNodeIds == {GNodeSeq[i] : i \in DOMAIN GNodeSeq}

\* nodes 1 and 2 lie on a horizontal line, nodes 3 and 4 on a vertical line
\* that crosses it in (10, 0); node 5 overlaps node 1
GLocation ==
    (1 :> V(0, 0)) @@ (2 :> V(20, 0)) @@ (3 :> V(10, -10)) @@ (4 :> V(10, 10))
        @@ (5 :> V(3, 0))

\* the ordered endpoint pairs the host connects
GPairs == {<<1, 2>>, <<3, 4>>, <<2, 1>>}

\* two parallel edges 1 -> 2 and one edge 3 -> 4
InitGraph ==
    [edges |-> [e \in 1..MaxEdges |->
                   IF e \in {1, 2} THEN <<1, 2>> ELSE IF e = 3 THEN <<3, 4>> ELSE Vacant],
     folded |-> {}, selected |-> {}]

EdgeIdx(gr) == {e \in DOMAIN gr.edges : gr.edges[e] # Vacant}

\* Graph::edges_iter: the edge indices in index order
edges_iter(gr) ==
    LET present(e) == gr.edges[e] # Vacant
    IN  SelectSeq([e \in DOMAIN gr.edges |-> e], present)

\* Graph::edges_num, the edges leaving the node
edges_num(gr, idx) == Cardinality({e \in EdgeIdx(gr) : gr.edges[e][1] = idx})

\* Node::screen_radius
screen_radius(gr, idx, m) ==
    RMul(RAdd(R(DEFAULT_RADIUS), RMul(R(EDGE_RADIUS_WEIGHT), R(edges_num(gr, idx)))), m.zoom)

\* the keys of a map in the order in which one instance of the map iterates
KeyOrders(keys) ==
    {s \in [1..Cardinality(keys) -> keys] : \A i, j \in DOMAIN s : s[i] = s[j] => i = j}

\* the map from endpoint pair to the edges between the pair, each list in the
\* order of edges_iter; key_order is the iteration order of the map built
edge_map(gr, key_order) ==
    [j \in DOMAIN key_order |->
        LET between(e) == gr.edges[e] = key_order[j]
        IN  [key |-> key_order[j], edges |-> SelectSeq(edges_iter(gr), between)]]

EdgeMaps(gr) ==
    {edge_map(gr, key_order) : key_order \in KeyOrders({gr.edges[e] : e \in EdgeIdx(gr)})}

dot(a, b) == RAdd(RMul(a[1], b[1]), RMul(a[2], b[2]))

hypot2(a, b) == dot(VSub(a, b), VSub(a, b))

proj(a, b) ==
    LET k == RDiv(dot(a, b), dot(b, b))
    IN  <<RMul(k, b[1]), RMul(k, b[2])>>

\* distance_segment_to_point without the two early returns: the distance to
\* the foot of the perpendicular on the line through a and b
distance_to_line_squared(a, b, point) ==
    hypot2(point, VAdd(a, proj(VSub(point, a), VSub(b, a))))

\* the square of distance_segment_to_point, the value before the final sqrt
distance_segment_to_point_squared(a, b, point) ==
    LET ac == VSub(point, a)
        ab == VSub(b, a)
        d == VAdd(a, proj(ac, ab))
        ad == VSub(d, a)
        k == IF RLt(RAbs(ab[2]), RAbs(ab[1]))
             THEN RDiv(ad[1], ab[1])
             ELSE RDiv(ad[2], ab[2])
    IN  IF RLe(k, R(0)) THEN hypot2(point, a)
        ELSE IF RLe(R(1), k) THEN hypot2(point, b)
        ELSE hypot2(point, d)

\* distance_segment_to_point(a, b, point) < width, both sides squared
\* (width >= 0). For a = b the source divides 0 by 0: k and the distance are
\* NaN and the comparison is false.
distance_less_than(a, b, point, width) ==
    IF a = b THEN FALSE
    ELSE RLt(distance_segment_to_point_squared(a, b, point), RMul(width, width))

\* is_point_on_bezier_curve: some segment of the flattened curve is closer
\* to the point than width
is_point_on_bezier_curve(point, curve_points, width) ==
    \E i \in 2..Len(curve_points) :
        distance_less_than(curve_points[i], curve_points[i - 1], point, width)

\* QuadraticBezierShape::sample
quadratic_sample(points, t) ==
    LET h == RSub(R(1), t)
    IN  VAdd(VAdd(VScale(points[1], RMul(h, h)),
                  VScale(points[2], RMul(R(2), RMul(h, t)))),
             VScale(points[3], RMul(t, t)))

\* QuadraticBezierShape::flatten: the start point, samples of the curve and
\* the end point; how many samples depends on the tolerance, ts are the
\* curve parameters of one flattening
flatten(points, ts) == [i \in DOMAIN ts |-> quadratic_sample(points, ts[i])]

\* the flattenings the tolerance can give: the chord, or two segments
FlattenTs == { <<R(0), R(1)>>, <<R(0), <<1, 2>>, R(1)>> }

is_point_on_quadratic_bezier_curve(point, points, width, ts) ==
    is_point_on_bezier_curve(point, flatten(points, ts), width)

\* the root of a square number
ISqrt(n) == CHOOSE k \in 0..n : k * k = n
\* Vec2::length; the endpoint pairs of the model are axis parallel, the
\* square of the length is the square of a rational
length(v) ==
    LET l2 == dot(v, v)
    IN  <<ISqrt(l2[1]), ISqrt(l2[2])>>

\* the sibling order edge_by_screen_pos uses for the edge at position i of
\* the list of a pair: order starts as edges.len() and is decremented
\* before it is used
edge_by_screen_pos_order_from_len(edges_of_pair, i) == Len(edges_of_pair) - i + 1

edge_by_screen_pos_order(edges_of_pair, i) == Len(edges_of_pair) - i

\* the control points of the curve of an edge with order > 0
curved_edge_points(gr, m, start, end, order) ==
    LET pos_start == GLocation[start]
        pos_end == GLocation[end]
        rad_start == RDiv(screen_radius(gr, start, m), m.zoom)
        rad_end == RDiv(screen_radius(gr, end, m), m.zoom)
        vec == VSub(pos_end, pos_start)
        dist == length(vec)
        dir == VDiv(vec, dist)
        start_node_radius_vec == <<RMul(rad_start, dir[1]), RMul(rad_start, dir[2])>>
        end_node_radius_vec == <<RMul(rad_end, dir[1]), RMul(rad_end, dir[2])>>
        tip_end == VSub(VAdd(pos_start, vec), end_node_radius_vec)
        edge_start == VAdd(pos_start, start_node_radius_vec)
        dir_perpendicular == <<RNeg(dir[2]), dir[1]>>
        center_point == VDiv(VAdd(edge_start, tip_end), R(2))
        control_point ==
            VAdd(center_point,
                 VScale(dir_perpendicular, RMul(R(EDGE_CURVE_SIZE), R(order))))
    IN  <<edge_start, control_point, tip_end>>

\* one edge of edge_by_screen_pos: a straight segment for order 0, a curve
\* for the siblings above it. The graphs of the model have no self-loops,
\* the branch for start == end is left out.
edge_matches(gr, m, pos_in_g, start, end, order, ts) ==
    IF order = 0
    THEN distance_less_than(GLocation[start], GLocation[end], pos_in_g, R(EDGE_WIDTH))
    ELSE is_point_on_quadratic_bezier_curve(
             pos_in_g, curved_edge_points(gr, m, start, end, order), R(EDGE_WIDTH), ts)

RECURSIVE edge_by_screen_pos_edges(_, _, _, _, _, _)
edge_by_screen_pos_edges(gr, m, pos_in_g, edges_of_pair, i, ts) ==
    IF i > Len(edges_of_pair) THEN NoEdge
    ELSE LET idx_edge == edges_of_pair[i]
             order == edge_by_screen_pos_order(edges_of_pair, i)
         IN  IF edge_matches(gr, m, pos_in_g, gr.edges[idx_edge][1],
                             gr.edges[idx_edge][2], order, ts)
             THEN idx_edge
             ELSE edge_by_screen_pos_edges(gr, m, pos_in_g, edges_of_pair, i + 1, ts)

RECURSIVE edge_by_screen_pos_from(_, _, _, _, _, _)
edge_by_screen_pos_from(gr, m, pos_in_g, em, j, ts) ==
    IF j > Len(em) THEN NoEdge
    ELSE LET found == edge_by_screen_pos_edges(gr, m, pos_in_g, em[j].edges, 1, ts)
         IN  IF found # NoEdge THEN found
             ELSE edge_by_screen_pos_from(gr, m, pos_in_g, em, j + 1, ts)

\* Graph::edge_by_screen_pos: the first edge, in the iteration order of the
\* map handed in, that is closer to the pointer than its width
edge_by_screen_pos(gr, m, screen_pos, em, ts) ==
    edge_by_screen_pos_from(gr, m, pos_in_graph(screen_pos, m), em, 1, ts)

RECURSIVE node_by_screen_pos_from(_, _, _, _)
node_by_screen_pos_from(gr, m, pos_in_g, i) ==
    IF i > Len(GNodeSeq) THEN NoNode
    ELSE LET idx == GNodeSeq[i]
         IN  IF within_radius(VSub(GLocation[idx], pos_in_g),
                              RDiv(screen_radius(gr, idx, m), m.zoom))
             THEN idx
             ELSE node_by_screen_pos_from(gr, m, pos_in_g, i + 1)

\* Graph::node_by_screen_pos: the first node in index order whose circle
\* contains the pointer
node_by_screen_pos(gr, m, screen_pos) ==
    node_by_screen_pos_from(gr, m, pos_in_graph(screen_pos, m), 1)

\* fill_layers_edges using the order before it is decremented
fill_layers_edges_order_from_len(edges_of_pair, i) == Len(edges_of_pair) - i + 1

\* the sibling order Drawer::fill_layers_edges draws the edge at position i
\* of the list of a pair with
fill_layers_edges_order(edges_of_pair, i) == Len(edges_of_pair) - i

\* the sibling order GraphView::draw_and_sync_edges draws the edge at
\* position i (list_idx i - 1) of the list of a pair with
draw_and_sync_edges_order(edges_of_pair, i) == Len(edges_of_pair) - i

\* cameras and pointer positions (in graph space) of the hit tests
HitCameras == { [zoom |-> R(1), pan |-> ZeroVec], [zoom |-> R(2), pan |-> V(4, 4)] }
HitPoints == { V(10, 0), V(5, 0), V(2, 0), V(10, 4), V(15, -15) }

NoHit == [tested |-> FALSE, double_clicked |-> NoNode]

NoDrawn == [done |-> FALSE]

-----------------------------------------------------------------------------
(* StateComputed (state_computed.rs): the folding part of the frame's pass  *)
(* over the nodes                                                           *)

\* usize::MAX, all bits set; the value is written as the i32 of the same
\* bits, which is what `depth as i32` makes of it
USIZE_MAX == -1
I32_MAX == 2147483647

\* the folding depths of the settings: the root only, one or two
\* generations, unlimited
FoldingDepths == {0, 1, 2, USIZE_MAX}

\* the nodes the edges leaving the nodes of from lead to
children(gr, from) ==
    {gr.edges[e][2] : e \in {x \in EdgeIdx(gr) : gr.edges[x][1] \in from}}

\* the bounded walk from a root: breadth first along the edges leaving a
\* node, each node visited once, stopping at the depth limit
RECURSIVE collect_generations(_, _, _)
collect_generations(gr, visited, depth) ==
    IF depth = 0 THEN visited
    ELSE LET next == visited \cup children(gr, visited)
         IN  IF next = visited THEN visited
             ELSE collect_generations(gr, next, depth - 1)

\* SubGraphs::add_subgraph: the record of the root is written anew
add_subgraph(subgraphs, gr, root_idx, depth) ==
    [r \in DOMAIN subgraphs \cup {root_idx} |->
        IF r = root_idx THEN collect_generations(gr, {root_idx}, depth) ELSE subgraphs[r]]

\* Option::None of elements_by_root; no walk is this set, a walk holds its root
NoElements == {NoNode}

\* SubGraphs::elements_by_root, the nodes of the record
elements_by_root(subgraphs, root_idx) ==
    IF root_idx \in DOMAIN subgraphs THEN subgraphs[root_idx] ELSE NoElements

\* SubGraphs::default
NoSubGraphs == [r \in {} |-> {}]

\* StateComputedNode::default
StateComputedNodeDefault ==
    [selected_child |-> FALSE, selected_parent |-> FALSE, folded_child |-> FALSE,
     num_folded |-> 0, radius |-> DEFAULT_RADIUS]

\* StateComputedEdge::default
StateComputedEdgeDefault == [selected_child |-> FALSE, selected_parent |-> FALSE]

\* HashMap::default of StateComputed::edges: no entry
NoEdgeStates == [e \in {} |-> StateComputedEdgeDefault]

\* SettingsStyle::folded_node_radius_weight
FOLDED_NODE_RADIUS_WEIGHT == 2

\* StateComputed::default; every node has the entry or_default() gives it
StateComputedDefault ==
    [selections |-> NoSubGraphs, foldings |-> NoSubGraphs,
     nodes |-> [idx \in GNodeIds |-> StateComputedNodeDefault], edges |-> NoEdgeStates]

NoComp == [computed |-> FALSE]

depth_normalized(depth) == IF depth = USIZE_MAX THEN I32_MAX ELSE depth

\* compute_folding counting the root among the folded nodes
compute_folding_counts_root(c, gr, root_idx, depth) ==
    IF root_idx \notin gr.folded THEN c
    ELSE LET foldings == add_subgraph(c.foldings, gr, root_idx, depth_normalized(depth))
             walked == elements_by_root(foldings, root_idx)
         IN  IF walked = NoElements THEN [c EXCEPT !.foldings = foldings]
             ELSE [foldings |-> foldings,
                   nodes |-> [idx \in GNodeIds |->
                       IF idx = root_idx
                       THEN [c.nodes[idx] EXCEPT !.num_folded = Cardinality(walked)]
                       ELSE IF idx \in walked
                            THEN [c.nodes[idx] EXCEPT !.folded_child = TRUE]
                            ELSE c.nodes[idx]]]

\* StateComputed::compute_folding
compute_folding(c, gr, root_idx, depth) ==
    IF root_idx \notin gr.folded THEN c
    ELSE LET foldings == add_subgraph(c.foldings, gr, root_idx, depth_normalized(depth))
             walked == elements_by_root(foldings, root_idx)
         IN  IF walked = NoElements THEN [c EXCEPT !.foldings = foldings]
             ELSE [foldings |-> foldings,
                   nodes |-> [idx \in GNodeIds |->
                       IF idx = root_idx
                       THEN [c.nodes[idx] EXCEPT !.num_folded = Cardinality(walked) - 1]
                       ELSE IF idx \in walked
                            THEN [c.nodes[idx] EXCEPT !.folded_child = TRUE]
                            ELSE c.nodes[idx]]]

\* StateComputed::compute_for_node, the radius: after compute_folding the
\* radius of the node grows by edge_radius_weight for each of its edges_num
\* edges and by folded_node_radius_weight for each node folded into it
compute_for_node_radius(c, gr, idx) ==
    LET num == edges_num(gr, idx)
        radius_addition == EDGE_RADIUS_WEIGHT * num
                               + c.nodes[idx].num_folded * FOLDED_NODE_RADIUS_WEIGHT
    IN  [c EXCEPT !.nodes[idx].radius = c.nodes[idx].radius + radius_addition]

\* the frame's pass: compute_for_node for every node of nodes_iter
RECURSIVE compute_foldings_from(_, _, _, _)
compute_foldings_from(c, gr, depth, i) ==
    IF i > Len(GNodeSeq) THEN c
    ELSE compute_foldings_from(
             compute_for_node_radius(compute_folding(c, gr, GNodeSeq[i], depth), gr, GNodeSeq[i]),
             gr, depth, i + 1)

\* the selection depths of the settings: children for a depth above 0,
\* parents for a depth below
SelectionDepths == {-2, -1, 0, 1, 2}

\* one generation of a walk: the edges that leave the nodes (outgoing) or
\* enter them, and the nodes they lead to
generation_edges(gr, from, outgoing) ==
    {e \in EdgeIdx(gr) : gr.edges[e][IF outgoing THEN 1 ELSE 2] \in from}
generation_nodes(gr, from, outgoing) ==
    {gr.edges[e][IF outgoing THEN 2 ELSE 1] : e \in generation_edges(gr, from, outgoing)}

\* the bounded walk with its edges, in the direction of the depth
RECURSIVE collect_generations_elements(_, _, _, _)
collect_generations_elements(gr, walked, steps, outgoing) ==
    IF steps = 0 THEN walked
    ELSE LET next == [nodes |-> walked.nodes \cup generation_nodes(gr, walked.nodes, outgoing),
                      edges |-> walked.edges \cup generation_edges(gr, walked.nodes, outgoing)]
         IN  IF next = walked THEN walked
             ELSE collect_generations_elements(gr, next, steps - 1, outgoing)

\* SubGraphs::add_subgraph for a selection: nodes and edges of the walk of
\* Abs(depth) generations
add_subgraph_elements(subgraphs, gr, root_idx, depth) ==
    [r \in DOMAIN subgraphs \cup {root_idx} |->
        IF r = root_idx
        THEN collect_generations_elements(gr, [nodes |-> {root_idx}, edges |-> {}],
                                          Abs(depth), depth > 0)
        ELSE subgraphs[r]]

\* HashMap::entry(idx).or_default() of StateComputed::edges
edges_entry_or_default(es, idx) ==
    IF idx \in DOMAIN es THEN es
    ELSE [e \in DOMAIN es \cup {idx} |-> IF e = idx THEN StateComputedEdgeDefault ELSE es[e]]

\* compute_for_edge that writes the default entry of the edge
compute_for_edge_insert(c, idx) ==
    [c EXCEPT !.edges = [e \in DOMAIN c.edges \cup {idx} |->
                            IF e = idx THEN StateComputedEdgeDefault ELSE c.edges[e]]]

\* StateComputed::compute_for_edge
compute_for_edge(c, idx) ==
    [c EXCEPT !.edges = edges_entry_or_default(c.edges, idx)]

\* the flag compute_selection sets in an entry
selection_flagged(computed, child_mode) ==
    IF child_mode THEN [computed EXCEPT !.selected_child = TRUE]
    ELSE [computed EXCEPT !.selected_parent = TRUE]

\* StateComputed::compute_selection
compute_selection(c, gr, root_idx, child_mode, depth) ==
    IF root_idx \notin gr.selected THEN c
    ELSE LET selections == add_subgraph_elements(c.selections, gr, root_idx, depth)
             elements == selections[root_idx]
             entries == [e \in DOMAIN c.edges \cup elements.edges |->
                            IF e \in DOMAIN c.edges THEN c.edges[e]
                            ELSE StateComputedEdgeDefault]
         IN  [c EXCEPT !.selections = selections,
                       !.nodes = [idx \in GNodeIds |->
                           IF idx \in elements.nodes /\ idx # root_idx
                           THEN selection_flagged(c.nodes[idx], child_mode)
                           ELSE c.nodes[idx]],
                       !.edges = [e \in DOMAIN entries |->
                           IF e \in elements.edges
                           THEN selection_flagged(entries[e], child_mode)
                           ELSE entries[e]]]

\* StateComputed::compute_for_node: selection, folding and radius of one
\* node
compute_for_node_state(c, gr, idx, selection_depth, folding_depth) ==
    compute_for_node_radius(
        compute_folding(compute_selection(c, gr, idx, selection_depth > 0, selection_depth),
                        gr, idx, folding_depth),
        gr, idx)

\* the frame's passes over the nodes and over the edges, the nodes in the
\* order given
RECURSIVE compute_nodes_from(_, _, _, _, _, _)
compute_nodes_from(c, gr, node_order, selection_depth, folding_depth, i) ==
    IF i > Len(node_order) THEN c
    ELSE compute_nodes_from(
             compute_for_node_state(c, gr, node_order[i], selection_depth, folding_depth),
             gr, node_order, selection_depth, folding_depth, i + 1)

RECURSIVE compute_edges_from(_, _, _)
compute_edges_from(c, gr, i) ==
    IF i > Len(edges_iter(gr)) THEN c
    ELSE compute_edges_from(compute_for_edge(c, edges_iter(gr)[i]), gr, i + 1)

\* the state a frame computes from the default
precompute_state(gr, node_order, edges_first, selection_depth, folding_depth) ==
    IF edges_first
    THEN compute_nodes_from(compute_edges_from(StateComputedDefault, gr, 1), gr, node_order,
                            selection_depth, folding_depth, 1)
    ELSE compute_edges_from(
             compute_nodes_from(StateComputedDefault, gr, node_order, selection_depth,
                                folding_depth, 1),
             gr, 1)

\* orders in which the nodes of the graph are visited
NodeOrders == {GNodeSeq, <<5, 4, 3, 2, 1>>, <<3, 1, 4, 5, 2>>}

\* a double click on a node that unfolds the node if it is folded and folds
\* it otherwise
handle_double_click_per_node(c, gr, idx) ==
    [gr EXCEPT !.folded = IF idx \in gr.folded THEN gr.folded \ {idx}
                          ELSE gr.folded \cup {idx}]

\* the double click on a node: with no folding registered in the frame the
\* node is folded, else every root of a folding is unfolded
handle_double_click(c, gr, idx) ==
    IF DOMAIN c.foldings = {}
    THEN [gr EXCEPT !.folded = gr.folded \cup {idx}]
    ELSE [gr EXCEPT !.folded = gr.folded \ DOMAIN c.foldings]

\* the endpoint pairs the host connects in the graphs that are folded: a
\* cycle 1 -> 2 -> 3 -> 1 and a tail 3 -> 4
FoldPairs == {<<1, 2>>, <<2, 3>>, <<3, 1>>, <<3, 4>>}

-----------------------------------------------------------------------------
(* Drawing the edges: Drawer (draw/drawer.rs), GraphView::draw_edge          *)
(* (graph_view.rs) and the branches of Graph::edge_by_screen_pos. An edge    *)
(* drawn is recorded with the geometry evaluated for it, the two nodes it    *)
(* is drawn between and the square of the distance of their positions, by    *)
(* which the direction of a straight or curved edge is divided.              *)

Shape(shape, from, to, transparent) ==
    [shape |-> shape, from |-> from, to |-> to, transparent |-> transparent,
     dist2 |-> IF from = NoNode THEN R(0) ELSE VLen2(VSub(GLocation[to], GLocation[from]))]

\* the early return of a drawing function: nothing is drawn
NotDrawn == Shape("none", NoNode, NoNode, FALSE)

\* the two-endpoint geometry: a straight line for order 0, a curve above
basic_shape(order) == IF order = 0 THEN "straight" ELSE "curved"

\* SubGraphs::roots_by_node: the roots of the records that hold the node
roots_by_node(subgraphs, idx) == {r \in DOMAIN subgraphs : idx \in subgraphs[r]}

\* what roots_by_node(idx).unwrap().first() can be for every node that is
\* in a record
FirstRoots(subgraphs) ==
    LET held == {idx \in GNodeIds : roots_by_node(subgraphs, idx) # {}}
    IN  {f \in [held -> DOMAIN subgraphs] : \A idx \in held : idx \in subgraphs[f[idx]]}

\* Drawer::draw_edge_looped
draw_edge_looped(c, n_idx, order) ==
    IF c.nodes[n_idx].folded_child THEN NotDrawn
    ELSE Shape("looped", n_idx, n_idx, FALSE)

\* Drawer::draw_edge_basic up to the direction of the edge; comp_start is
\* the state of from, comp_end that of to
draw_edge_basic(c, gr, start_idx, end_idx, order, first_root) ==
    LET start_subfolded == c.nodes[start_idx].folded_child
        end_subfolded == c.nodes[end_idx].folded_child
    IN  IF (start_idx \in gr.folded \/ start_subfolded) /\ end_subfolded THEN NotDrawn
        ELSE LET from == IF start_subfolded /\ ~end_subfolded
                         THEN first_root[start_idx] ELSE start_idx
                 end_replaced == ~c.nodes[from].folded_child /\ end_subfolded
                 to == IF end_replaced THEN first_root[end_idx] ELSE end_idx
             IN  Shape(basic_shape(order), from, to,
                       (start_subfolded /\ ~end_subfolded) \/ end_replaced)

\* the position of an edge in the list of its endpoint pair
RECURSIVE list_position(_, _, _)
list_position(edges_of_pair, e, i) ==
    IF edges_of_pair[i] = e THEN i ELSE list_position(edges_of_pair, e, i + 1)

edges_of(gr, pair) ==
    LET between(e) == gr.edges[e] = pair
    IN  SelectSeq(edges_iter(gr), between)

\* Drawer::fill_layers_edges: what is drawn for every edge
fill_layers_edges(c, gr, first_root) ==
    [e \in EdgeIdx(gr) |->
        LET start == gr.edges[e][1]
            end == gr.edges[e][2]
            edges_of_pair == edges_of(gr, gr.edges[e])
            order == fill_layers_edges_order(edges_of_pair, list_position(edges_of_pair, e, 1))
        IN  IF start = end
            THEN draw_edge_looped(c, start, order)
            ELSE draw_edge_basic(c, gr, start, end, order, first_root)]

\* GraphView::draw_edge: the geometries evaluated for one edge, in the
\* order of their evaluation
draw_edge(start, end, order) ==
    (IF start = end THEN <<Shape("looped", start, start, FALSE)>> ELSE <<>>)
        \o <<Shape(basic_shape(order), start, end, FALSE)>>

\* GraphView::draw_and_sync_edges on the same edges
draw_and_sync_edges(gr) ==
    [e \in EdgeIdx(gr) |->
        LET edges_of_pair == edges_of(gr, gr.edges[e])
            order == draw_and_sync_edges_order(edges_of_pair,
                                               list_position(edges_of_pair, e, 1))
        IN  draw_edge(gr.edges[e][1], gr.edges[e][2], order)]

\* the branch of Graph::edge_by_screen_pos an edge is tested in
edge_by_screen_pos_shape(start, end, order) ==
    IF start = end THEN Shape("looped", start, start, FALSE)
    ELSE Shape(basic_shape(order), start, end, FALSE)

edge_by_screen_pos_shapes(gr) ==
    [e \in EdgeIdx(gr) |->
        LET edges_of_pair == edges_of(gr, gr.edges[e])
            order == edge_by_screen_pos_order(edges_of_pair,
                                              list_position(edges_of_pair, e, 1))
        IN  edge_by_screen_pos_shape(gr.edges[e][1], gr.edges[e][2], order)]

\* the endpoint pairs the host connects in the graphs that are drawn: the
\* edges there and back between 1 and 2, an edge on to 3, and a self-loop
DrawPairs == {<<1, 2>>, <<2, 1>>, <<2, 3>>, <<1, 1>>}

-----------------------------------------------------------------------------
(* Configurations and canvases the model starts from *)

Settings(node_drag, node_select, node_multiselect, fit, zoom_and_pan, padding) ==
    [node_drag |-> node_drag, node_select |-> node_select,
     node_multiselect |-> node_multiselect, fit_to_screen |-> fit,
     zoom_and_pan |-> zoom_and_pan, screen_padding |-> padding]

SettingsSet ==
    { Settings(TRUE, TRUE, FALSE, TRUE, FALSE, <<3, 10>>),
      Settings(TRUE, TRUE, TRUE, FALSE, TRUE, <<3, 10>>),
      Settings(FALSE, FALSE, FALSE, TRUE, TRUE, <<3, 10>>),
      Settings(FALSE, TRUE, TRUE, FALSE, FALSE, <<3, 10>>),
      Settings(TRUE, FALSE, FALSE, TRUE, FALSE, <<1, 2>>) }

RectSet ==
    { [min |-> V(0, 0), max |-> V(520, 390)],
      [min |-> V(8, 8), max |-> V(528, 398)] }

\* the edges the host has marked selected before the first frame
InitSelectedEdges == {<<1, 2, 0>>, <<2, 3, 0>>}

NoPre == [nodes |-> <<>>, edges |-> <<>>, metadata |-> <<>>, synced |-> <<>>, settings |-> <<>>,
          kept |-> <<>>]

NoState == [dragged_node |-> NoNode, selected_nodes |-> {}, selected_edges |-> {}]

\* Elements::new(nodes, edges) of construct_simulation
InitNodes ==
    [idx \in NodeIds |-> [location |-> InitLocation[idx], selected |-> FALSE, dragged |-> FALSE]]
InitEdges == [idx \in EdgeIds |-> [selected |-> idx \in InitSelectedEdges]]

\* the widget is created on one of the elements of els, each a pair of the
\* nodes and the edges handed to Elements::new
StartWith(ss, rs, by, els) ==
    /\ \E el \in els : nodes = el[1] /\ edges = el[2]
    /\ settings \in ss
    /\ rect \in rs
    /\ bounds_by = by
    /\ metadata = MetadataDefault
    /\ changes = NoChanges
    /\ phase = "host"
    /\ frames = 0
    /\ hostops = 0
    /\ pre = NoPre
    /\ inp = NoResponse
    /\ state = NoState
    /\ graph = InitGraph
    /\ hit = NoHit
    /\ comp = NoComp
    /\ drawn = NoDrawn

Start(ss, rs, by) == StartWith(ss, rs, by, {<<InitNodes, InitEdges>>})

Init == Start(SettingsSet, RectSet, "draw_and_sync_nodes")

\* ui.add(widget): one frame
Frame ==
    /\ phase = "host"
    /\ frames < MaxFrames
    /\ ~draw_and_sync_edges_panics(nodes, edges)
    /\ LET m2 == ui_draw_and_sync(rect, nodes, metadata, bounds_by)
       IN  \E d \in dragged_candidates(nodes) :
           \E resp \in Responses(nodes, m2, rect) :
               LET st == draw_and_sync_state(nodes, edges, d)
                   out == ui(resp, rect, nodes, st, m2, settings)
               IN  /\ metadata' = out.metadata
                   /\ changes' = out.changes
                   /\ state' = st
                   /\ inp' = resp
                   /\ pre' = [nodes |-> nodes, edges |-> edges, metadata |-> metadata,
                              synced |-> m2, settings |-> settings, kept |-> changes]
    /\ phase' = "frame"
    /\ frames' = frames + 1
    /\ UNCHANGED <<nodes, edges, settings, rect, hostops, bounds_by, graph, hit, comp, drawn>>

\* self.apply_changes(widget.last_changes()), the end of ExampleApp::update:
\* the widget of the frame is dropped with its changes
ApplyChanges ==
    /\ phase = "frame"
    /\ nodes' = apply_changes_nodes(nodes, changes, 1)
    /\ edges' = apply_changes_edges(edges, changes, 1)
    /\ phase' = "host"
    /\ changes' = NoChanges
    /\ pre' = NoPre
    /\ inp' = NoResponse
    /\ state' = NoState
    /\ UNCHANGED <<settings, metadata, rect, frames, hostops, bounds_by, graph, hit, comp, drawn>>

\* the "drag" checkbox of the host
ToggleDrag ==
    /\ phase = "host"
    /\ frames > 0
    /\ hostops < MaxHostOps
    /\ hostops' = hostops + 1
    /\ settings' = [settings EXCEPT !.node_drag = ~settings.node_drag]
    /\ UNCHANGED <<nodes, edges, metadata, rect, changes, phase, frames, pre, inp, state,
                   bounds_by, graph, hit, comp, drawn>>

\* GraphView::reset_metadata
ResetMetadata ==
    /\ phase = "host"
    /\ ~metadata.first_frame
    /\ hostops < MaxHostOps
    /\ hostops' = hostops + 1
    /\ metadata' = MetadataDefault
    /\ UNCHANGED <<nodes, edges, settings, rect, changes, phase, frames, pre, inp, state,
                   bounds_by, graph, hit, comp, drawn>>

Next == Frame \/ ApplyChanges \/ ToggleDrag \/ ResetMetadata

Spec == Init /\ [][Next]_vars

\* ui.add(widget) once more with the widget of the last frame, whose changes
\* the host has not applied: the widget still holds them when the frame starts
FrameAgain ==
    /\ phase = "frame"
    /\ frames < MaxFrames
    /\ hostops < MaxHostOps
    /\ ~draw_and_sync_edges_panics(nodes, edges)
    /\ LET m2 == ui_draw_and_sync(rect, nodes, metadata, bounds_by)
       IN  \E d \in dragged_candidates(nodes) :
           \E resp \in Responses(nodes, m2, rect) :
               LET st == draw_and_sync_state(nodes, edges, d)
                   out == ui(resp, rect, nodes, st, m2, settings)
               IN  /\ metadata' = out.metadata
                   /\ changes' = out.changes
                   /\ state' = st
                   /\ inp' = resp
                   /\ pre' = [nodes |-> nodes, edges |-> edges, metadata |-> metadata,
                              synced |-> m2, settings |-> settings, kept |-> changes]
    /\ frames' = frames + 1
    /\ hostops' = hostops + 1
    /\ UNCHANGED <<nodes, edges, settings, rect, phase, bounds_by, graph, hit, comp, drawn>>

\* a host that may show the widget again before it applies the changes
KeptSettings == { Settings(TRUE, TRUE, FALSE, TRUE, FALSE, <<3, 10>>) }
InitKept == Start(KeptSettings, RectSet, "draw_and_sync_nodes")
NextKept == Next \/ FrameAgain
SpecKept == InitKept /\ [][NextKept]_vars

\* the frame with the bounds accumulated by StateComputed::compute_for_node
ComputedSettings == { Settings(FALSE, TRUE, FALSE, TRUE, FALSE, <<3, 10>>) }
\* the canvases of RectSet and a canvas smaller than the graph
ComputedRectSet == RectSet \cup { [min |-> V(0, 0), max |-> V(65, 39)] }
InitComputed == Start(ComputedSettings, ComputedRectSet, "compute_for_node")
SpecComputed == InitComputed /\ [][Next]_vars

\* ui.add(widget) on elements with an edge whose endpoint is not among the
\* nodes: draw_and_sync_edges panics, the panic unwinds through Widget::ui
\* and ExampleApp::update; nothing is stored and no later frame runs
FramePanics ==
    /\ phase = "host"
    /\ frames < MaxFrames
    /\ draw_and_sync_edges_panics(nodes, edges)
    /\ phase' = "panicked"
    /\ frames' = frames + 1
    /\ UNCHANGED <<nodes, edges, settings, metadata, rect, changes, pre, inp, state, hostops,
                   bounds_by, graph, hit, comp, drawn>>

\* Elements::new on no nodes and no edges
NoNodes == [idx \in {} |-> [location |-> ZeroVec, selected |-> FALSE, dragged |-> FALSE]]
NoEdges == [idx \in {} |-> [selected |-> FALSE]]

\* a host without fit_to_screen and zoom_and_pan whose graph may be empty
EmptySettings ==
    { Settings(TRUE, TRUE, FALSE, FALSE, FALSE, <<3, 10>>),
      Settings(FALSE, TRUE, TRUE, FALSE, FALSE, <<3, 10>>) }
InitEmpty ==
    StartWith(EmptySettings, RectSet, "draw_and_sync_nodes",
              {<<InitNodes, InitEdges>>, <<NoNodes, NoEdges>>})
SpecEmpty == InitEmpty /\ [][Next]_vars

\* a host that hands in elements of its own making: those of
\* construct_simulation, or the same with one more edge 1 -> 4 while there
\* is no node 4
DanglingEdge == <<1, 4, 0>>
DanglingEdges ==
    [idx \in EdgeIds \cup {DanglingEdge} |-> [selected |-> idx \in InitSelectedEdges]]
InitDangling ==
    StartWith(KeptSettings, RectSet, "draw_and_sync_nodes",
              {<<InitNodes, InitEdges>>, <<InitNodes, DanglingEdges>>})
NextDangling == Next \/ FramePanics
SpecDangling == InitDangling /\ [][NextDangling]_vars

\* the host adds an edge between two nodes: StableGraph::add_edge puts it
\* into a free slot
AddEdge ==
    /\ \E pair \in GPairs :
       \E e \in DOMAIN graph.edges :
           /\ graph.edges[e] = Vacant
           /\ graph' = [graph EXCEPT !.edges[e] = pair]
    /\ hit' = NoHit
    /\ comp' = NoComp
    /\ drawn' = NoDrawn
    /\ UNCHANGED <<nodes, edges, settings, metadata, rect, changes, phase, frames, pre,
                   inp, state, hostops, bounds_by>>

\* the host removes an edge: StableGraph::remove_edge frees its slot, the
\* other edges keep their indices
RemoveEdge ==
    /\ \E e \in EdgeIdx(graph) : graph' = [graph EXCEPT !.edges[e] = Vacant]
    /\ hit' = NoHit
    /\ comp' = NoComp
    /\ drawn' = NoDrawn
    /\ UNCHANGED <<nodes, edges, settings, metadata, rect, changes, phase, frames, pre,
                   inp, state, hostops, bounds_by>>

\* what edge_by_screen_pos can return for the maps the caller can hand in
EdgesFound(gr, m, screen_pos, ts) ==
    {edge_by_screen_pos(gr, m, screen_pos, em, ts) : em \in EdgeMaps(gr)}

\* the node and the edge under the pointer, looked up twice with the same
\* camera, pointer position and graph; every lookup of an edge is handed a
\* map built for it. The record keeps one pair of lookups per state of the
\* graph.
HitTest ==
    /\ ~hit.tested
    /\ \E m \in HitCameras :
       \E point \in HitPoints :
       \E ts \in FlattenTs :
           LET screen_pos == VAdd(VScale(point, m.zoom), m.pan)
           IN  \E found \in EdgesFound(graph, m, screen_pos, ts)
                               \X EdgesFound(graph, m, screen_pos, ts) :
                   hit' = [tested |-> TRUE, double_clicked |-> NoNode, meta |-> m, point |-> point, ts |-> ts,
                           node |-> <<node_by_screen_pos(graph, m, screen_pos),
                                      node_by_screen_pos(graph, m, screen_pos)>>,
                           edge |-> found]
    /\ UNCHANGED <<nodes, edges, settings, metadata, rect, changes, phase, frames, pre,
                   inp, state, hostops, bounds_by, graph, comp, drawn>>

\* the host connects two nodes of the graph that is folded
AddFoldEdge ==
    /\ \E pair \in FoldPairs :
       \E e \in DOMAIN graph.edges :
           /\ graph.edges[e] = Vacant
           /\ graph' = [graph EXCEPT !.edges[e] = pair]
    /\ hit' = NoHit
    /\ comp' = NoComp
    /\ drawn' = NoDrawn
    /\ UNCHANGED <<nodes, edges, settings, metadata, rect, changes, phase, frames, pre,
                   inp, state, hostops, bounds_by>>

\* the host folds or unfolds a node: Node::set_folded
SetFolded ==
    /\ \E idx \in GNodeIds :
           graph' = [graph EXCEPT !.folded =
                        IF idx \in graph.folded THEN graph.folded \ {idx}
                        ELSE graph.folded \cup {idx}]
    /\ hit' = NoHit
    /\ comp' = NoComp
    /\ drawn' = NoDrawn
    /\ UNCHANGED <<nodes, edges, settings, metadata, rect, changes, phase, frames, pre,
                   inp, state, hostops, bounds_by>>

\* a frame computes its StateComputed from the default, with the folding
\* depth of the settings it is given
ComputeFrame ==
    /\ ~comp.computed
    /\ \E depth \in FoldingDepths :
           comp' = [computed |-> TRUE, depth |-> depth,
                    state |-> compute_foldings_from(StateComputedDefault, graph, depth, 1)]
    /\ UNCHANGED <<nodes, edges, settings, metadata, rect, changes, phase, frames, pre,
                   inp, state, hostops, bounds_by, graph, hit, drawn>>

\* the frame that has computed its state gets a double click on a node;
\* the frame ends with it
DoubleClick ==
    /\ comp.computed
    /\ \E idx \in GNodeIds :
           /\ graph' = handle_double_click(comp.state, graph, idx)
           /\ hit' = [tested |-> FALSE, double_clicked |-> idx,
                      folded_before |-> graph.folded]
    /\ comp' = NoComp
    /\ drawn' = NoDrawn
    /\ UNCHANGED <<nodes, edges, settings, metadata, rect, changes, phase, frames, pre,
                   inp, state, hostops, bounds_by>>

\* the host connects two nodes, or a node with itself, in the graph that is
\* drawn
AddDrawEdge ==
    /\ \E pair \in DrawPairs :
       \E e \in DOMAIN graph.edges :
           /\ graph.edges[e] = Vacant
           /\ graph' = [graph EXCEPT !.edges[e] = pair]
    /\ hit' = NoHit
    /\ comp' = NoComp
    /\ drawn' = NoDrawn
    /\ UNCHANGED <<nodes, edges, settings, metadata, rect, changes, phase, frames, pre,
                   inp, state, hostops, bounds_by>>

\* a frame computes its state and draws the edges with it; the edges are
\* also taken through GraphView::draw_and_sync_edges and through the
\* branches of the edge hit test
DrawFrame ==
    /\ ~drawn.done
    /\ \E depth \in FoldingDepths :
           LET c == compute_foldings_from(StateComputedDefault, graph, depth, 1)
           IN  \E first_root \in FirstRoots(c.foldings) :
                   drawn' = [done |-> TRUE, depth |-> depth, state |-> c,
                             drawer |-> fill_layers_edges(c, graph, first_root),
                             graph_view |-> draw_and_sync_edges(graph),
                             hit_test |-> edge_by_screen_pos_shapes(graph)]
    /\ UNCHANGED <<nodes, edges, settings, metadata, rect, changes, phase, frames, pre,
                   inp, state, hostops, bounds_by, graph, hit, comp>>

\* the host or a click selects or deselects a node: Node::set_selected
SetSelected ==
    /\ \E idx \in GNodeIds :
           graph' = [graph EXCEPT !.selected =
                        IF idx \in graph.selected THEN graph.selected \ {idx}
                        ELSE graph.selected \cup {idx}]
    /\ hit' = NoHit
    /\ comp' = NoComp
    /\ drawn' = NoDrawn
    /\ UNCHANGED <<nodes, edges, settings, metadata, rect, changes, phase, frames, pre,
                   inp, state, hostops, bounds_by>>

\* a frame computes its StateComputed, selections included, visiting the
\* nodes in some order and the edges before or after them
ComputeSelections ==
    /\ ~comp.computed
    /\ \E selection_depth \in SelectionDepths, node_order \in NodeOrders,
          edges_first \in BOOLEAN :
           comp' = [computed |-> TRUE, depth |-> 0, selection_depth |-> selection_depth,
                    state |-> precompute_state(graph, node_order, edges_first,
                                               selection_depth, 0)]
    /\ UNCHANGED <<nodes, edges, settings, metadata, rect, changes, phase, frames, pre,
                   inp, state, hostops, bounds_by, graph, hit, drawn>>

\* the graph under hit tests while the host edits its edges
GraphSettings == { Settings(TRUE, TRUE, FALSE, TRUE, FALSE, <<3, 10>>) }
GraphRectSet == { [min |-> V(0, 0), max |-> V(520, 390)] }
InitGraphSpec == Start(GraphSettings, GraphRectSet, "draw_and_sync_nodes")
NextGraph == AddEdge \/ RemoveEdge \/ HitTest
SpecGraph == InitGraphSpec /\ [][NextGraph]_vars

\* the graph being folded while the host edits it
NextFold == AddFoldEdge \/ RemoveEdge \/ SetFolded \/ ComputeFrame \/ DoubleClick
SpecFold == InitGraphSpec /\ [][NextFold]_vars

\* distance_segment_to_point on the segments and points of a grid
MaxCoord == 3
GridPoints == {V(x, y) : x \in 0..MaxCoord, y \in 0..MaxCoord}

InitDistance ==
    /\ \E a \in GridPoints, b \in GridPoints, point \in GridPoints :
           /\ a # b
           /\ hit = [tested |-> FALSE, double_clicked |-> NoNode, a |-> a, b |-> b,
                     point |-> point, distance2 |-> R(0)]
    /\ nodes = InitNodes /\ edges = InitEdges
    /\ settings \in GraphSettings
    /\ rect \in GraphRectSet
    /\ bounds_by = "draw_and_sync_nodes"
    /\ metadata = MetadataDefault
    /\ changes = NoChanges
    /\ phase = "host"
    /\ frames = 0
    /\ hostops = 0
    /\ pre = NoPre
    /\ inp = NoResponse
    /\ state = NoState
    /\ graph = InitGraph
    /\ comp = NoComp
    /\ drawn = NoDrawn

\* one call of distance_segment_to_point; the square of what it returns is
\* kept
DistanceSegmentToPoint ==
    /\ ~hit.tested
    /\ hit' = [hit EXCEPT !.tested = TRUE,
                          !.distance2 = distance_segment_to_point_squared(hit.a, hit.b,
                                                                          hit.point)]
    /\ UNCHANGED <<nodes, edges, settings, metadata, rect, changes, phase, frames, pre,
                   inp, state, hostops, bounds_by, graph, comp, drawn>>

SpecDistance == InitDistance /\ [][DistanceSegmentToPoint]_vars

\* the graph with selected nodes while the host edits it
NextSelect == AddFoldEdge \/ RemoveEdge \/ SetSelected \/ ComputeSelections
SpecSelect == InitGraphSpec /\ [][NextSelect]_vars

\* the graph being drawn while the host edits and folds it
NextDraw == AddDrawEdge \/ RemoveEdge \/ SetFolded \/ DrawFrame
SpecDraw == InitGraphSpec /\ [][NextDraw]_vars

-----------------------------------------------------------------------------
(* Properties of a frame. They are stated over the state right after a frame
   (phase = "frame"): pre holds the elements, the settings and the metadata
   the frame started with (pre.synced is the metadata the handlers received
   from draw_and_sync), inp its pointer input, state its FrameState, changes
   and metadata what it produced. *)

InFrame == phase = "frame"

\* the node under the pointer of the frame's click, NoNode when the frame had
\* no click or the click hit no node
ClickedNode ==
    IF InFrame /\ inp.clicked
    THEN node_by_pos(pre.nodes, pre.synced, inp.hover_pos)
    ELSE NoNode

Logged(kind, id) == \E i \in DOMAIN changes : changes[i].kind = kind /\ changes[i].id = id
LoggedKind(kinds) == \E i \in DOMAIN changes : changes[i].kind \in kinds
EntriesOf(id) ==
    {i \in DOMAIN changes :
        changes[i].kind \in {"select_node", "deselect_node"} /\ changes[i].id = id}

SelectionKinds == {"select_node", "deselect_node", "deselect_edge"}
DragKinds == {"set_dragged", "unset_dragged", "move_node"}

\* the elements once the host has applied the changes of the frame
AppliedNodes == apply_changes_nodes(nodes, changes, 1)
AppliedEdges == apply_changes_edges(edges, changes, 1)
AppliedSelectedNodes == {idx \in NodeIds : AppliedNodes[idx].selected}
AppliedSelectedEdges == {idx \in EdgeIds : AppliedEdges[idx].selected}

\* C1: with selection enabled, a click on an unselected node logs exactly one
\* selection change for that node, a select; a click on a selected node logs
\* a deselect for it, and once the changes are applied the node is not
\* selected. In single-select and in multi-select mode.
C1_ClickTogglesSelection ==
    (InFrame /\ pre.settings.node_select /\ ClickedNode # NoNode) =>
        IF ~pre.nodes[ClickedNode].selected
        THEN /\ Cardinality(EntriesOf(ClickedNode)) = 1
             /\ Logged("select_node", ClickedNode)
        ELSE /\ Logged("deselect_node", ClickedNode)
             /\ ~AppliedNodes[ClickedNode].selected

\* C2: with multi-select disabled, a click on node B while another node A is
\* selected logs a deselect of A and a select of B, the deselect first, and
\* once the changes are applied B is the only selected node.
C2_SingleSelectDeselectsFirst ==
    (InFrame /\ pre.settings.node_select /\ ~pre.settings.node_multiselect
        /\ ClickedNode # NoNode) =>
        /\ \A a \in state.selected_nodes \ {ClickedNode} :
               \E i, j \in DOMAIN changes :
                   /\ i < j
                   /\ changes[i].kind = "deselect_node" /\ changes[i].id = a
                   /\ changes[j].kind = "select_node" /\ changes[j].id = ClickedNode
        /\ AppliedSelectedNodes = {ClickedNode}

C2_Witness ==
    /\ InFrame /\ pre.settings.node_select /\ ~pre.settings.node_multiselect
    /\ ClickedNode # NoNode
    /\ state.selected_nodes \ {ClickedNode} # {}
    /\ Len(changes) >= 2

\* C3: with selection enabled, a click that hits no node logs a deselect for
\* every selected node and every selected edge and logs no select; once the
\* changes are applied no node and no edge is selected.
C3_EmptyClickDeselectsAll ==
    (InFrame /\ pre.settings.node_select /\ inp.clicked /\ ClickedNode = NoNode) =>
        /\ \A n \in state.selected_nodes : Logged("deselect_node", n)
        /\ \A e \in state.selected_edges : Logged("deselect_edge", e)
        /\ ~LoggedKind({"select_node"})
        /\ AppliedSelectedNodes = {}
        /\ AppliedSelectedEdges = {}

C3_Witness ==
    /\ InFrame /\ pre.settings.node_select /\ inp.clicked /\ ClickedNode = NoNode
    /\ state.selected_nodes # {}
    /\ state.selected_edges # {}
    /\ Len(changes) = Cardinality(state.selected_nodes) + Cardinality(state.selected_edges)

\* C4: with multi-select enabled, a click on a node logs selection changes
\* for that node only: no deselect is logged for another node or for an edge,
\* and once the changes are applied every other node and every edge is
\* selected exactly when it was before.
C4_MultiSelectKeepsOthers ==
    (InFrame /\ pre.settings.node_select /\ pre.settings.node_multiselect
        /\ ClickedNode # NoNode) =>
        /\ ~LoggedKind({"deselect_edge"})
        /\ \A i \in DOMAIN changes :
               changes[i].kind \in {"select_node", "deselect_node"}
                   => changes[i].id = ClickedNode
        /\ \A n \in NodeIds \ {ClickedNode} :
               AppliedNodes[n].selected = pre.nodes[n].selected
        /\ \A e \in EdgeIds : AppliedEdges[e].selected = pre.edges[e].selected

C4_Witness ==
    /\ InFrame /\ pre.settings.node_select /\ pre.settings.node_multiselect
    /\ ClickedNode # NoNode
    /\ state.selected_nodes \ {ClickedNode} # {}
    /\ state.selected_edges # {}
    /\ AppliedSelectedNodes = state.selected_nodes \cup {ClickedNode}

\* C5: a disabled interaction logs no change: with dragging disabled a frame
\* logs no drag start, no drag end and no move, with selection disabled it
\* logs no select and no deselect, whatever the pointer does.
C5_DisabledLogsNothing ==
    InFrame =>
        /\ ~pre.settings.node_drag => ~LoggedKind(DragKinds)
        /\ ~pre.settings.node_select => ~LoggedKind(SelectionKinds)

\* dragging and selection are disabled while a node is still flagged dragged,
\* and the pointer is dragged on
C5_Witness ==
    /\ InFrame /\ ~pre.settings.node_drag /\ ~pre.settings.node_select
    /\ state.dragged_node # NoNode
    /\ inp.dragged
    /\ changes = NoChanges

\* the camera fit_to_screen computes for the canvas and the bounding box of
\* the nodes as they are, starting from the default camera
FitCamera ==
    fit_to_screen(rect, [MetadataDefault EXCEPT !.graph_bounds = compute_graph_bounds(nodes)])

\* C6: with fit_to_screen enabled, zoom and pan after every frame are the
\* values fit_to_screen computes from the current bounding box and canvas,
\* whatever the pointer drags and zoom gestures of the frame, also with
\* zoom_and_pan enabled in the same settings.
C6_FitOverridesNavigation ==
    (InFrame /\ pre.settings.fit_to_screen) =>
        /\ metadata.zoom = FitCamera.zoom
        /\ metadata.pan = FitCamera.pan

C6_Witness ==
    /\ InFrame /\ pre.settings.fit_to_screen /\ pre.settings.zoom_and_pan
    /\ inp.dragged /\ inp.drag_delta # ZeroVec
    /\ inp.zoom_delta # R(1)
    /\ metadata.zoom = FitCamera.zoom

\* C7: in free navigation, in every frame in which a node is being dragged,
\* the frame in which the drag starts over a node included, navigation leaves
\* pan and zoom as they were.
C7_DragLeavesCameraAlone ==
    (InFrame /\ ~pre.settings.fit_to_screen /\ pre.settings.zoom_and_pan
        /\ pre.settings.node_drag /\ inp.dragged
        /\ \/ state.dragged_node # NoNode
           \/ inp.drag_started
              /\ node_by_pos(pre.nodes, pre.synced, inp.hover_pos) # NoNode) =>
        /\ metadata.zoom = pre.synced.zoom
        /\ metadata.pan = pre.synced.pan

\* the anchor of the frame's zoom: the pointer, or the centre of the canvas
ZoomAnchor == IF inp.hover_pos # NoPos THEN inp.hover_pos ELSE rect_center(rect)

\* C8: after navigation has applied a zoom, the graph-space coordinate under
\* the anchor, (anchor_screen - pan) / zoom as hit testing maps the pointer,
\* is what it was before the zoom.
C8_ZoomKeepsAnchor ==
    (InFrame /\ ~pre.settings.fit_to_screen /\ pre.settings.zoom_and_pan
        /\ inp.zoom_delta # R(1) /\ ~inp.dragged) =>
        pos_in_graph(ZoomAnchor, metadata) = pos_in_graph(ZoomAnchor, pre.synced)

\* C9: a fit_to_screen frame that follows a fit_to_screen frame over the same
\* graph and canvas leaves zoom and pan as the first one left them.
C9_FitTwiceSameCamera ==
    (InFrame /\ pre.settings.fit_to_screen /\ ~pre.metadata.first_frame
        /\ \A idx \in NodeIds : nodes[idx].location = InitLocation[idx]) =>
        /\ metadata.zoom = pre.metadata.zoom
        /\ metadata.pan = pre.metadata.pan

\* C10: fit_to_screen sets zoom to the smaller of canvas width over padded
\* bounding box width and canvas height over padded bounding box height, the
\* padding being the screen_padding of the settings, and sets pan so that the
\* centre of the bounding box is drawn at the centre of the canvas.
C10_FitUsesScreenPadding ==
    (InFrame /\ pre.settings.fit_to_screen) =>
        LET b == compute_graph_bounds(nodes)
            padded == VScale(VSub(b.max, b.min), RAdd(R(1), pre.settings.screen_padding))
            canvas == rect_size(rect)
            centre == VDiv(VAdd(b.min, b.max), R(2))
        IN  /\ metadata.zoom = RMin(RDiv(canvas[1], padded[1]), RDiv(canvas[2], padded[2]))
            /\ VAdd(VScale(centre, metadata.zoom), metadata.pan) = rect_center(rect)

\* C11: after every frame the stored graph bounding box contains, for every
\* node and on both axes, the node's location minus and plus its radius.
C11_BoundsContainNodes ==
    InFrame =>
        \A idx \in NodeIds :
            LET loc == nodes[idx].location
                rad == node_radius(idx)
                b == metadata.graph_bounds
            IN  /\ RLe(b.min[1], RSub(loc[1], rad))
                /\ RLe(b.min[2], RSub(loc[2], rad))
                /\ RLe(RAdd(loc[1], rad), b.max[1])
                /\ RLe(RAdd(loc[2], rad), b.max[2])

\* C12: the changes the widget holds after a frame are those of this frame
\* only: none when the frame had no pointer interaction, and otherwise only
\* changes that the pointer input of this frame accounts for, whatever
\* changes the widget held when the frame started.
C12_OnlyThisFramesChanges ==
    InFrame =>
        /\ (~inp.clicked /\ ~inp.drag_started /\ ~inp.dragged /\ ~inp.drag_released)
               => changes = NoChanges
        /\ \A i \in DOMAIN changes :
               /\ changes[i].kind \in SelectionKinds => inp.clicked
               /\ changes[i].kind = "set_dragged" => inp.drag_started
               /\ changes[i].kind = "move_node" => inp.dragged
               /\ changes[i].kind = "unset_dragged" => inp.drag_released

\* a frame without pointer interaction, run with a widget that held changes
C12_Witness ==
    /\ InFrame
    /\ pre.kept # NoChanges
    /\ inp = NoResponse
    /\ changes = NoChanges

\* what C13 asks of a frame with a dragged pointer and a dragged node: one
\* move is logged, for the dragged node and by drag_delta / zoom, and once
\* the changes are applied that node has moved by it and no other node has
DraggedNodeMoved ==
    LET d == state.dragged_node
        delta == VDiv(inp.drag_delta, pre.synced.zoom)
    IN  /\ \E i \in DOMAIN changes :
               /\ changes[i] = Entry("move_node", d, delta)
               /\ \A j \in DOMAIN changes : changes[j].kind = "move_node" => j = i
        /\ AppliedNodes[d].location = VAdd(pre.nodes[d].location, delta)
        /\ \A n \in NodeIds \ {d} : AppliedNodes[n].location = pre.nodes[n].location

\* C13 (as stated): in every frame in which the pointer is dragged while a
\* node is the dragged node, that node is moved by drag_delta / zoom, a move
\* is logged for it and no other node moves.
C13_DragMovesNode ==
    (InFrame /\ inp.dragged /\ state.dragged_node # NoNode) => DraggedNodeMoved

\* C13 (amended): the same, in every such frame in which dragging is enabled.
C13_DragMovesNodeWhenEnabled ==
    (InFrame /\ pre.settings.node_drag /\ inp.dragged /\ state.dragged_node # NoNode)
        => DraggedNodeMoved

C13_Witness ==
    /\ InFrame /\ pre.settings.node_drag /\ inp.dragged /\ state.dragged_node # NoNode
    /\ inp.drag_delta # ZeroVec
    /\ pre.synced.zoom # R(1)
    /\ AppliedNodes[state.dragged_node].location # pre.nodes[state.dragged_node].location

\* C14: the frame in which the pointer is released while a node is flagged
\* dragged logs the end of the drag for that node, and once the host has
\* applied the changes of that frame no node is flagged dragged
C14_ReleaseEndsDrag ==
    (InFrame /\ inp.drag_released /\ state.dragged_node # NoNode)
        => /\ Logged("unset_dragged", state.dragged_node)
           /\ \A n \in NodeIds : ~AppliedNodes[n].dragged

\* C15: at most one node is flagged dragged, before a frame and once the host
\* has applied the changes of a frame; a drag that starts over a node while
\* another node is flagged dragged therefore marks no second node
FlaggedDragged(ns) == {n \in NodeIds : ns[n].dragged}

C15_AtMostOneDragged ==
    /\ Cardinality(FlaggedDragged(nodes)) <= 1
    /\ InFrame => Cardinality(FlaggedDragged(AppliedNodes)) <= 1

\* C16: with camera, pointer position and graph unchanged, the second node
\* hit test returns the node of the first and the second edge hit test
\* returns the edge of the first
C16_HitTestsRepeat ==
    hit.tested => /\ hit.node[1] = hit.node[2]
                  /\ hit.edge[1] = hit.edge[2]

\* the node half of C16
C16_NodeHitTestsRepeat == hit.tested => hit.node[1] = hit.node[2]

\* the edges between an ordered pair, in the order of their list in the map
EdgesBetween(gr, pair) ==
    LET between(e) == gr.edges[e] = pair
    IN  SelectSeq(edges_iter(gr), between)

\* a hit test at a point of the straight line between nodes 1 and 2 while
\* the graph has two parallel edges 1 -> 2 and no other edge
MidlineProbe ==
    /\ hit.tested
    /\ hit.point \in {V(5, 0), V(10, 0)}
    /\ Len(EdgesBetween(graph, <<1, 2>>)) = 2
    /\ Cardinality(EdgeIdx(graph)) = 2

\* C17 as stated: the hit test on the midline matches neither of the two
\* parallel edges
C17_MidlineMatchesNeither == MidlineProbe => hit.edge[1] = NoEdge

\* C17 amended: the hit test on the midline returns one of the two parallel
\* edges; away from the flattened curve of the other edge it is the edge of
\* sibling order 0, the last of the list, which is a straight segment
C17_MidlineMatchesStraightEdge ==
    MidlineProbe =>
        LET es == EdgesBetween(graph, <<1, 2>>)
        IN  /\ hit.edge[1] \in {es[1], es[2]}
            /\ hit.point = V(5, 0) => hit.edge[1] = es[2]

C17_Witness ==
    /\ MidlineProbe
    /\ hit.point = V(5, 0)
    /\ hit.edge[1] = EdgesBetween(graph, <<1, 2>>)[2]

\* the sibling orders a rule gives to the edges of one list
OrdersOf(edges_of_pair, order_rule(_, _)) ==
    {order_rule(edges_of_pair, i) : i \in DOMAIN edges_of_pair}

\* C18: for every ordered endpoint pair with k parallel edges, the orders
\* used for its edges by the hit test and by the two drawing passes are the
\* k values 0..k-1 (k edges with k different orders: each order once), in
\* every graph the host reaches by adding and removing edges
C18_SiblingOrdersContiguous ==
    \A pair \in GPairs :
        LET es == EdgesBetween(graph, pair)
        IN  /\ OrdersOf(es, edge_by_screen_pos_order) = 0..(Len(es) - 1)
            /\ OrdersOf(es, fill_layers_edges_order) = 0..(Len(es) - 1)
            /\ OrdersOf(es, draw_and_sync_edges_order) = 0..(Len(es) - 1)

\* three parallel edges 1 -> 2, the third added after the edge 3 -> 4 was
\* removed, and a hit test made on them
C18_Witness ==
    /\ Len(EdgesBetween(graph, <<1, 2>>)) = 3
    /\ hit.tested
    /\ hit.edge[1] # NoEdge

\* the nodes a path of at most depth edges leads to from idx
RECURSIVE NodesWithin(_, _, _)
NodesWithin(gr, idx, depth) ==
    {idx} \cup
        (IF depth = 0 THEN {}
         ELSE UNION {NodesWithin(gr, c, depth - 1) : c \in children(gr, {idx})})

\* the induced walk of a root at the folding depth; no path without a
\* repeated node is longer than the number of nodes
InducedWalk(gr, idx, depth) ==
    NodesWithin(gr, idx, IF depth = USIZE_MAX THEN Len(GNodeSeq) ELSE depth)

\* C19: in the computed state of a frame the folded-descendant count of a
\* folded node is the size of its induced walk at the folding depth minus
\* one, and the count of a node that is not folded is 0
C19_FoldedCountIsWalkMinusRoot ==
    comp.computed =>
        \A idx \in GNodeIds :
            comp.state.nodes[idx].num_folded =
                IF idx \in graph.folded
                THEN Cardinality(InducedWalk(graph, idx, comp.depth)) - 1
                ELSE 0

\* two folded roots, one with two folded descendants, one of which is not
\* folded itself
C19_Witness ==
    /\ comp.computed
    /\ \E idx \in graph.folded :
           /\ comp.state.nodes[idx].num_folded = 2
           /\ \E other \in graph.folded : other # idx
           /\ \E n \in GNodeIds \ graph.folded : comp.state.nodes[n].folded_child

\* C20: after a double click on a node in a frame with no fold active
\* exactly that node is folded; after a double click on any node in a frame
\* with a fold active no node is folded
C20_DoubleClickFoldsOrUnfoldsAll ==
    hit.double_clicked # NoNode =>
        IF hit.folded_before = {}
        THEN graph.folded = {hit.double_clicked}
        ELSE graph.folded = {}

\* two folds were active and the double click was on a node that is not
\* folded
C20_Witness ==
    /\ hit.double_clicked # NoNode
    /\ Cardinality(hit.folded_before) = 2
    /\ hit.double_clicked \notin hit.folded_before
    /\ graph.folded = {}

\* C21: a lookup of a node by an identity the elements do not hold yields
\* not-found, and a frame that meets such an identity does not bring the
\* engine down: the frame ends and later frames can run
C21_AbsentLookupDoesNotCrash ==
    /\ \A idx \in {DanglingEdge[1], DanglingEdge[2]} \ DOMAIN nodes : ~get_node(nodes, idx).found
    /\ phase # "panicked"

\* the edges connected to a node, incoming as well as outgoing
EdgesConnected(gr, idx) ==
    {e \in EdgeIdx(gr) : gr.edges[e][1] = idx \/ gr.edges[e][2] = idx}

\* C22: the effective radius of a node in the computed state of a frame is
\* the base radius plus edge_radius_weight for every edge connected to the
\* node, incoming as well as outgoing, plus folded_node_radius_weight times
\* its folded-descendant count
C22_RadiusCountsConnectedEdges ==
    comp.computed =>
        \A idx \in GNodeIds :
            comp.state.nodes[idx].radius =
                DEFAULT_RADIUS
                    + EDGE_RADIUS_WEIGHT * Cardinality(EdgesConnected(graph, idx))
                    + FOLDED_NODE_RADIUS_WEIGHT * comp.state.nodes[idx].num_folded

\* C22 with the edges the code counts, those leaving the node
C22_RadiusCountsLeavingEdges ==
    comp.computed =>
        \A idx \in GNodeIds :
            comp.state.nodes[idx].radius =
                DEFAULT_RADIUS
                    + EDGE_RADIUS_WEIGHT
                          * Cardinality({e \in EdgeIdx(graph) : graph.edges[e][1] = idx})
                    + FOLDED_NODE_RADIUS_WEIGHT * comp.state.nodes[idx].num_folded

\* the geometries that divide by the distance of two endpoint positions
TwoEndpointShapes == {"straight", "curved"}

SelfLoops(gr) == {e \in EdgeIdx(gr) : gr.edges[e][1] = gr.edges[e][2]}

\* C23: for a self-loop only the loop geometry is evaluated, by the drawer,
\* by GraphView::draw_edge and by the edge hit test; the straight or curved
\* geometry is not evaluated for it
C23_SelfLoopOnlyLoopGeometry ==
    drawn.done =>
        \A e \in SelfLoops(graph) :
            /\ drawn.drawer[e].shape \notin TwoEndpointShapes
            /\ drawn.hit_test[e].shape \notin TwoEndpointShapes
            /\ \A i \in DOMAIN drawn.graph_view[e] :
                   drawn.graph_view[e][i].shape \notin TwoEndpointShapes

\* the drawer and hit test half of C23
C23_DrawerAndHitTestOnlyLoopGeometry ==
    drawn.done =>
        \A e \in SelfLoops(graph) :
            /\ drawn.drawer[e].shape \notin TwoEndpointShapes
            /\ drawn.hit_test[e].shape \notin TwoEndpointShapes

\* the edges of the graph between two nodes
TwoEndpointEdges(gr) == EdgeIdx(gr) \ SelfLoops(gr)

Subfolded(idx) == drawn.state.nodes[idx].folded_child

\* both endpoints of the edge are inside a fold
InsideFold(e) ==
    /\ graph.edges[e][1] \in graph.folded \/ Subfolded(graph.edges[e][1])
    /\ Subfolded(graph.edges[e][2])

\* the edge leaves or enters a fold: one endpoint is subfolded, the other is
\* not, and the edge is not inside a fold
CrossesFold(e) ==
    /\ ~InsideFold(e)
    /\ Subfolded(graph.edges[e][1]) # Subfolded(graph.edges[e][2])

\* the edge is drawn transparent, its subfolded endpoint replaced by a root
\* of a fold that holds it, its other endpoint kept
DrawnFromRoot(e) ==
    LET d == drawn.drawer[e]
        start == graph.edges[e][1]
        end == graph.edges[e][2]
    IN  /\ d.shape \in TwoEndpointShapes
        /\ d.transparent
        /\ IF Subfolded(start)
           THEN d.from \in roots_by_node(drawn.state.foldings, start) /\ d.to = end
           ELSE d.to \in roots_by_node(drawn.state.foldings, end) /\ d.from = start

\* C29: an edge with both endpoints inside a fold is not drawn; an edge that
\* crosses a fold is drawn transparent from or to a root of a fold holding
\* its subfolded endpoint, and the two nodes it is drawn between are
\* distinct, also when its other endpoint is that root
C29_FoldCrossingEdgeBetweenDistinctNodes ==
    drawn.done =>
        \A e \in TwoEndpointEdges(graph) :
            /\ InsideFold(e) => drawn.drawer[e].shape = "none"
            /\ CrossesFold(e) => DrawnFromRoot(e) /\ drawn.drawer[e].from # drawn.drawer[e].to

\* C29 without the distinctness of the two nodes
C29_FoldCrossingEdgeFromRoot ==
    drawn.done =>
        \A e \in TwoEndpointEdges(graph) :
            /\ InsideFold(e) => drawn.drawer[e].shape = "none"
            /\ CrossesFold(e) => DrawnFromRoot(e)

\* an edge is drawn between a root and a node outside the fold
C29_SomeEdgeDrawnFromRoot ==
    /\ drawn.done
    /\ \E e \in TwoEndpointEdges(graph) :
           CrossesFold(e) /\ drawn.drawer[e].from # drawn.drawer[e].to
                          /\ graph.edges[e][1] # drawn.drawer[e].from

\* the nodes a path of at most steps edges leads to from idx, along the
\* edges (outgoing) or against them
RECURSIVE NodesWithinDirected(_, _, _, _)
NodesWithinDirected(gr, idx, steps, outgoing) ==
    {idx} \cup
        (IF steps = 0 THEN {}
         ELSE UNION {NodesWithinDirected(gr, c, steps - 1, outgoing) :
                        c \in generation_nodes(gr, {idx}, outgoing)})

\* the nodes of the walk of a selected node at the selection depth
SelectionWalkNodes(gr, root, depth) == NodesWithinDirected(gr, root, Abs(depth), depth > 0)

\* the edges of the walk: those taken by a path of at most Abs(depth) edges
SelectionWalkEdges(gr, root, depth) ==
    IF depth = 0 THEN {}
    ELSE generation_edges(gr, NodesWithinDirected(gr, root, Abs(depth) - 1, depth > 0),
                          depth > 0)

NodeSubselected(c, idx) == c.nodes[idx].selected_child \/ c.nodes[idx].selected_parent
EdgeSubselected(c, e) ==
    e \in DOMAIN c.edges /\ (c.edges[e].selected_child \/ c.edges[e].selected_parent)

\* C24: in the computed state of a frame a node is subselected exactly when
\* it is in the walk of a selected node other than itself at the selection
\* depth, and an edge exactly when it is an edge of the walk of a selected
\* node; in every order of visiting nodes and edges
C24_SubselectedIsWalkMembership ==
    (comp.computed /\ "selection_depth" \in DOMAIN comp) =>
        /\ \A idx \in GNodeIds :
               NodeSubselected(comp.state, idx) <=>
                   \E root \in graph.selected \ {idx} :
                       idx \in SelectionWalkNodes(graph, root, comp.selection_depth)
        /\ \A e \in EdgeIdx(graph) :
               EdgeSubselected(comp.state, e) <=>
                   \E root \in graph.selected :
                       e \in SelectionWalkEdges(graph, root, comp.selection_depth)

\* two selected nodes, the walk of one two edges long, a subselected node
\* and edge, and a node and an edge outside every walk
C24_Witness ==
    /\ comp.computed /\ "selection_depth" \in DOMAIN comp
    /\ Cardinality(graph.selected) = 2
    /\ \E root \in graph.selected :
           Cardinality(SelectionWalkEdges(graph, root, comp.selection_depth)) >= 2
    /\ \E idx \in GNodeIds \ graph.selected : NodeSubselected(comp.state, idx)
    /\ \E idx \in GNodeIds \ graph.selected : ~NodeSubselected(comp.state, idx)
    /\ \E e \in EdgeIdx(graph) : EdgeSubselected(comp.state, e)
    /\ \E e \in EdgeIdx(graph) : ~EdgeSubselected(comp.state, e)

\* C25: the state a frame computes is that of the elements the frame was
\* given: the selected nodes and edges are those flagged selected, the
\* dragged node is a node flagged dragged, none when no node is flagged, and
\* the bounding box is that of the nodes at their current locations with
\* their radii, whatever the frames before have left
C25_ComputedStateOfCurrentGraph ==
    InFrame =>
        /\ state.selected_nodes = {idx \in NodeIds : pre.nodes[idx].selected}
        /\ state.selected_edges = {idx \in EdgeIds : pre.edges[idx].selected}
        /\ state.dragged_node \in
               (IF FlaggedDragged(pre.nodes) = {} THEN {NoNode} ELSE FlaggedDragged(pre.nodes))
        /\ pre.synced.graph_bounds = compute_graph_bounds(pre.nodes)

\* C26: in every camera state the zoom is finite and above 0, also when the
\* elements hold no node
C26_ZoomPositiveFinite ==
    /\ metadata.zoom[2] # 0
    /\ metadata.zoom[1] > 0

\* the camera one fit_to_screen gives the metadata the frame started with
FirstFrameFit ==
    fit_to_screen(rect, [pre.metadata EXCEPT !.graph_bounds = compute_graph_bounds(pre.nodes)])

\* the frame has fitted once before draw_and_sync, or has not fitted there
FitIfFirstDone ==
    IF pre.metadata.first_frame
    THEN /\ pre.synced.zoom = FirstFrameFit.zoom
         /\ pre.synced.pan = FirstFrameFit.pan
    ELSE /\ pre.synced.zoom = pre.metadata.zoom
         /\ pre.synced.pan = pre.metadata.pan

\* only reset_metadata sets the first-frame flag, together with the default
\* camera
FlagSetByResetOnly ==
    (~metadata.first_frame /\ metadata'.first_frame) =>
        /\ phase = "host" /\ phase' = "host"
        /\ hostops' = hostops + 1
        /\ metadata' = MetadataDefault

\* C27: a frame that starts with the first-frame flag set fits once before
\* it draws, with every setting of fit_to_screen, and stores the flag
\* cleared; a frame that starts with the flag cleared does not fit there and
\* leaves it cleared; the flag is set again by reset_metadata only
C27_FirstFrameFitsOnce ==
    /\ [](InFrame => (FitIfFirstDone /\ ~pre.synced.first_frame /\ ~metadata.first_frame))
    /\ [][FlagSetByResetOnly]_vars

\* a frame after reset_metadata, with fit_to_screen off, that has fitted
\* again: the camera it drew with is not the default one it started with
C27_Witness ==
    /\ InFrame /\ frames > 1
    /\ pre.metadata.first_frame
    /\ ~pre.settings.fit_to_screen
    /\ pre.synced.zoom # pre.metadata.zoom
    /\ pre.synced.zoom = FirstFrameFit.zoom

\* a step changes zoom or pan
CameraChanges == metadata'.zoom # metadata.zoom \/ metadata'.pan # metadata.pan

\* C28: with fit_to_screen and zoom_and_pan both off, once the first-frame
\* fit is done no frame changes zoom or pan, whatever the pointer does; the
\* only step that changes them is reset_metadata
C28_CameraFixedWithoutNavigation ==
    [][(~settings.fit_to_screen /\ ~settings.zoom_and_pan /\ ~metadata.first_frame
            /\ CameraChanges) =>
        (phase = "host" /\ phase' = "host" /\ hostops' = hostops + 1
            /\ metadata' = MetadataDefault)]_vars

\* a frame after the first with both settings off, a drag of the canvas and
\* a zoom gesture in it, and the camera it started with
C28_Witness ==
    /\ InFrame
    /\ ~pre.settings.fit_to_screen /\ ~pre.settings.zoom_and_pan
    /\ ~pre.metadata.first_frame
    /\ inp.dragged /\ inp.zoom_delta # R(1) /\ state.dragged_node = NoNode
    /\ metadata.zoom = pre.metadata.zoom /\ metadata.pan = pre.metadata.pan

\* the projection parameter of the point on the segment, as a fraction of
\* the segment: 0 at a, 1 at b
ProjectionParameter(a, b, point) ==
    RDiv(dot(VSub(point, a), VSub(b, a)), dot(VSub(b, a), VSub(b, a)))

\* the square of the distance of the point from the line through a and b:
\* the square of the cross product over the square of the length of a-b
LineDistance2(a, b, point) ==
    LET ab == VSub(b, a)
        ap == VSub(point, a)
        cross == RSub(RMul(ab[1], ap[2]), RMul(ab[2], ap[1]))
    IN  RDiv(RMul(cross, cross), dot(ab, ab))

StrictlyInside(k) == RLt(R(0), k) /\ RLt(k, R(1))

OnSegment(a, b, point) ==
    /\ LineDistance2(a, b, point) = R(0)
    /\ RLe(R(0), ProjectionParameter(a, b, point))
    /\ RLe(ProjectionParameter(a, b, point), R(1))

\* C30: for a segment a-b with a # b, distance_segment_to_point (its square
\* here) is the distance of the point from the foot of the perpendicular on
\* a-b when the projection parameter is strictly between 0 and 1, and the
\* distance from the nearer of a and b otherwise; it is 0 for a point on the
\* segment
C30_DistanceSegmentToPoint ==
    hit.tested =>
        /\ hit.distance2 =
               IF StrictlyInside(ProjectionParameter(hit.a, hit.b, hit.point))
               THEN LineDistance2(hit.a, hit.b, hit.point)
               ELSE RMin(VLen2(VSub(hit.point, hit.a)), VLen2(VSub(hit.point, hit.b)))
        /\ OnSegment(hit.a, hit.b, hit.point) => hit.distance2 = R(0)

\* a sloping segment, a point beside it whose foot is strictly inside, and
\* the distance of the two
C30_Witness ==
    /\ hit.tested
    /\ hit.a = V(0, 0) /\ hit.b = V(2, 2) /\ hit.point = V(2, 0)
    /\ StrictlyInside(ProjectionParameter(hit.a, hit.b, hit.point))
    /\ hit.distance2 = R(2)

====
